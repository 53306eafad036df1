----------------------------- MODULE NetAddress -----------------------------
(***************************************************************************)
(* IPv4Address and IPv6Address of src/mumu/address.cc: the addresses of a  *)
(* subnet, the text of an IPv6 address, and how Lookup cuts a text into    *)
(* node and service.  An address is the set of the                         *)
(* bits that are 1, counted from the most significant; an IPv6 address is  *)
(* worked on byte by byte, and what lies behind its last byte is the scope *)
(* id of the sockaddr_in6.                                                 *)
(***************************************************************************)
EXTENDS Integers, Sequences, SequencesExt

CONSTANTS
  V4Bits,             \* bits of an IPv4 address (32)
  ByteBits, V6Bytes,  \* bits of a byte (8), bytes of an IPv6 address (16)
  V6Groups,           \* groups of the text of an IPv6 address (8)
  MaxHost             \* bound: parts of a text to look up

ASSUME AddressAssumption ==
  V4Bits \in Nat \ {0} /\ ByteBits \in Nat \ {0} /\ V6Bytes \in Nat \ {0} /\ V6Groups \in Nat \ {0} /\ MaxHost \in Nat

VARIABLES
  addr, prefix_len, subnet, text, computed,
  looked     \* a text that was looked up, and the node and service that getaddrinfo is asked for

addressVars == <<addr, prefix_len, subnet, text, computed, looked>>

(* CreateMask: the host bits of a word.  For a word of the width of int, the shift by all its
   bits is undefined: the mask is then empty, or full. *)
CreateMask(width, bits) == (bits + 1)..width
Mask4(bits) == IF bits = 0 THEN {{}, CreateMask(V4Bits, 0)} ELSE {CreateMask(V4Bits, bits)}

V4Subnets(a, p) ==
  {[broadcast |-> a \cup mask, network |-> a \cap mask, mask |-> (1..V4Bits) \ mask, scope |-> FALSE] :
     mask \in Mask4(p)}

(* IPv6: the byte the prefix ends in, by its mask, and the bytes behind it as a whole. *)
V6Bits == V6Bytes * ByteBits
ByteAt(i) == (i * ByteBits + 1)..((i + 1) * ByteBits)
MaskOfByte(p) == {(p \div ByteBits) * ByteBits + b : b \in CreateMask(ByteBits, p % ByteBits)}
Behind(p) == UNION {ByteAt(i) : i \in ((p \div ByteBits) + 1)..(V6Bytes - 1)}
Before(p) == UNION {ByteAt(i) : i \in 0..((p \div ByteBits) - 1)}

V6Subnets(a, p) ==
  LET byte == ByteAt(p \div ByteBits)
      outside == p \div ByteBits = V6Bytes      \* the index of the scope id
      mask == MaskOfByte(p)
  IN {[broadcast |-> a \cup (mask \cap (1..V6Bits)) \cup Behind(p),
       network |-> (a \ (byte \cup Behind(p))) \cup (a \cap mask),
       mask |-> ((byte \ mask) \cap (1..V6Bits)) \cup Before(p),
       scope |-> outside]}

(* IPv6Address::insert, over the groups: which are 0 and which is the first of a run. *)
Colon == -1
Skipped(groups) ==     \* groups written as nothing: zeros before used_zeros is set
  LET first == IF \E i \in 1..V6Groups : groups[i] = 0 THEN
                 CHOOSE i \in 1..V6Groups : groups[i] = 0 /\ \A j \in 1..(i - 1) : groups[j] # 0
               ELSE V6Groups + 1
  IN {i \in first..V6Groups : \A j \in first..i : groups[j] = 0}
Insert(groups) ==
  LET skipped == Skipped(groups)
      piece(i) ==
        IF i \in skipped THEN <<>>
        ELSE (IF i - 1 \in skipped THEN <<Colon>> ELSE <<>>) \o (IF i > 1 THEN <<Colon>> ELSE <<>>)
             \o <<groups[i]>>
      upTo[i \in 0..V6Groups] == IF i = 0 THEN <<>> ELSE upTo[i - 1] \o piece(i)
  IN upTo[V6Groups] \o (IF V6Groups \in skipped THEN <<Colon, Colon>> ELSE <<>>)

(* Address::Lookup up to getaddrinfo.  A name or number is one part of the text, as are the signs.
   In the scan for "name:service" a second colon leaves service at the first one, and the node
   empty, which then is the whole text. *)
OpenSign == -2
CloseSign == -3
NoService == <<-4>>     \* no text has this part
From(s, i) == SubSeq(s, i, Len(s))
FirstAt(s, sign, from) == SelectInSubSeq(s, from, Len(s), LAMBDA part : part = sign)
Bracketed(host) ==
  LET end == IF host # <<>> /\ host[1] = OpenSign THEN FirstAt(host, CloseSign, 2) ELSE 0
  IN [node |-> IF end = 0 THEN <<>> ELSE SubSeq(host, 2, end - 1),
      service |-> IF end # 0 /\ end < Len(host) /\ host[end + 1] = Colon THEN From(host, end + 2) ELSE NoService]
Separated(host) ==
  LET colon == FirstAt(host, Colon, 1)
  IN IF colon = 0 THEN [node |-> <<>>, service |-> NoService]
     ELSE IF FirstAt(host, Colon, colon + 1) # 0 THEN [node |-> <<>>, service |-> From(host, colon)]
     ELSE [node |-> SubSeq(host, 1, colon - 1), service |-> From(host, colon + 1)]
HostParts(host) ==
  LET asked == IF Bracketed(host).node # <<>> THEN Bracketed(host) ELSE Separated(host)
  IN IF asked.node = <<>> THEN [asked EXCEPT !.node = host] ELSE asked

BitsAsGroups(a) == [i \in 1..V6Groups |-> IF i \in a THEN 1 ELSE 0]

AddressInit ==
  /\ addr = [v |-> 4, bits |-> {}] /\ prefix_len = 0
  /\ subnet = [broadcast |-> {}, network |-> {}, mask |-> {}, scope |-> FALSE]
  /\ text = <<>> /\ computed = FALSE
  /\ looked = [host |-> <<>>, got |-> HostParts(<<>>)]

SubnetOf4 ==
  /\ ~computed /\ computed' = TRUE /\ text' = <<>>
  /\ \E a \in SUBSET (1..V4Bits) : addr' = [v |-> 4, bits |-> a]
  /\ prefix_len' \in 0..V4Bits /\ subnet' \in V4Subnets(addr'.bits, prefix_len')
  /\ UNCHANGED looked
SubnetOf6 ==
  /\ ~computed /\ computed' = TRUE
  /\ \E a \in SUBSET (1..V6Bits) : addr' = [v |-> 6, bits |-> a]
  /\ text' = Insert(BitsAsGroups(addr'.bits))
  /\ prefix_len' \in 0..V6Bits /\ subnet' \in V6Subnets(addr'.bits, prefix_len')
  /\ UNCHANGED looked
LookupAny ==
  /\ ~computed /\ computed' = TRUE /\ UNCHANGED <<addr, prefix_len, subnet, text>>
  /\ \E host \in BoundedSeq({0, Colon, OpenSign, CloseSign}, MaxHost) : looked' = [host |-> host, got |-> HostParts(host)]

AddressNext == SubnetOf4 \/ SubnetOf6 \/ LookupAny

AddressSpec == AddressInit /\ [][AddressNext]_addressVars

-----------------------------------------------------------------------------
AddressTypeOK ==
  LET bits == 1..(IF addr.v = 4 THEN V4Bits ELSE V6Bits)
  IN /\ addr.bits \subseteq bits /\ prefix_len \in {0} \cup bits
     /\ subnet.broadcast \cup subnet.network \cup subnet.mask \subseteq bits /\ subnet.scope \in BOOLEAN /\ computed \in BOOLEAN

(* The subnet of an address by the bits of its prefix.  IPv4Address::networdAddress, which keeps
   the host bits, is left out, of the IPv6 one the byte the prefix ends in, which it treats
   likewise, and of IPv4 the prefix 0, whose mask is undefined. *)
Subnets ==
  LET width == IF addr.v = 4 THEN V4Bits ELSE V6Bits
      host == (prefix_len + 1)..width
      byte == IF addr.v = 4 THEN 1..V4Bits ELSE ByteAt(prefix_len \div ByteBits)
  IN computed /\ looked.host = <<>> /\ (addr.v = 4 => prefix_len > 0) =>
       /\ subnet.broadcast = addr.bits \cup host
       /\ subnet.mask = (1..width) \ host
       /\ subnet.network \ byte = (addr.bits \ host) \ byte
       /\ subnet.scope => prefix_len = V6Bits

(* The texts inet_pton takes for the groups g: all of them, or one run of zeros as "::". *)
Joined(g, i, j) ==
  [k \in 1..(IF i > j THEN 0 ELSE 2 * (j - i) + 1) |-> IF k % 2 = 0 THEN Colon ELSE g[i + (k \div 2)]]
TextsOf(g) ==
  {Joined(g, 1, V6Groups)} \cup
  {Joined(g, 1, run[1] - 1) \o <<Colon, Colon>> \o Joined(g, run[2] + 1, V6Groups) :
     run \in {r \in (1..V6Groups) \X (1..V6Groups) : r[1] <= r[2] /\ \A k \in r[1]..r[2] : g[k] = 0}}
TextIsRead == computed /\ addr.v = 6 => text \in TextsOf(BitsAsGroups(addr.bits))

(* A node and a service, written together as a host name or an address in brackets, are what is
   asked for, and so is the text of an IPv6 address with its port.  An IPv6 address that is not
   in brackets is asked for with a service that it does not have (address.cc:116-129). *)
Written(host, node, service) ==
  LET Joint(n) == IF service = NoService THEN n ELSE n \o <<Colon>> \o service
  IN /\ node # <<>> /\ (service = NoService \/ Colon \notin Range(service))
     /\ \/ node[1] # OpenSign /\ Colon \notin Range(node) /\ host = Joint(node)
        \/ CloseSign \notin Range(node) /\ host = Joint(<<OpenSign>> \o node \o <<CloseSign>>)
HostsSplit ==
  LET host == looked.host
  IN /\ \A i \in DOMAIN host, j \in DOMAIN host, service \in Suffixes(host) \cup {NoService} :
          Written(host, SubSeq(host, i, j), service) =>
            looked.got = [node |-> SubSeq(host, i, j), service |-> service]
     /\ OpenSign \notin Range(host) /\ looked.got.service # NoService /\ Colon \in Range(looked.got.service) =>
          looked.got.node = host /\ host[Len(host) - Len(looked.got.service) + 1] = Colon
     /\ computed /\ addr.v = 6 =>
          HostParts(<<OpenSign>> \o text \o <<CloseSign, Colon, 0>>) = [node |-> text, service |-> <<0>>]

AddressesRead == Subnets /\ TextIsRead /\ HostsSplit
=============================================================================
