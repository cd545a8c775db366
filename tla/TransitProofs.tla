---------------------------- MODULE TransitProofs ----------------------------
(***************************************************************************)
(* Proofs about Transit: vouchers cannot be put together from signatures   *)
(* made for something else, and a slice decodes only if it is one whole    *)
(* frame, for every set of relays and node-ids and every number of         *)
(* signatures.                                                             *)
(***************************************************************************)
EXTENDS Transit, CommonLemmas

(* A signature is either that of a voucher a relay has issued, or one made *)
(* elsewhere, over bytes that do not start with the domain tag.            *)
SignedFor(m, relay, peer, expire) ==
    m = [key |-> relay, over |-> compose_signing_bytes(relay, peer, expire)]
UntaggedBytes(key, peer, number) == <<key, peer>> \o to_be_bytes(number)
SignedElsewhere(m) ==
    \E key \in Relays, peer \in NodeIds, number \in Expiries :
        m = [key |-> key, over |-> UntaggedBytes(key, peer, number)]
MadeInv ==
    \A i \in DOMAIN made :
        \/ \E relay \in Relays, peer \in NodeIds, expire \in Expiries :
              /\ SignedFor(made[i], relay, peer, expire)
              /\ <<relay, peer, expire>> \in issued
        \/ SignedElsewhere(made[i])

(* What decode_frame is given is a cut of one frame and what follows it.   *)
CutOf(s, f, n, next) == s = SubSeq(encode_frame(f) \o <<next>>, 1, n)
SliceInv ==
    sent # <<>> =>
        \E f \in TransitFrame : \E n \in 0..(Len(encode_frame(f)) + 1), next \in {0, 1} :
            sent = <<f>> /\ CutOf(slice, f, n, next)

TransitInv == made \in Seq([key : NodeIds, over : Seq(Int)]) /\ MadeInv /\ SliceInv

-----------------------------------------------------------------------------
(* What a byte counts for is the product of Base over those behind it.     *)
LEMMA PlaceLaw ==
    /\ Place \in [Nat -> Nat] /\ Place[0] = 1
    /\ \A n \in Nat : Place[n + 1] = Base * Place[n]
<1> DEFINE Body(g) == [n \in Nat |-> IF n = 0 THEN 1 ELSE Base * g[n - 1]]
<1>1. Place = CHOOSE g : g = Body(g)
  BY DEF Place
<1>2. Base \in Nat
  BY TransitAssumption
<1>3. \E g : g = Body(g)
  BY <1>2, PowersExist
<1>4. Place = Body(Place)
  <2> HIDE DEF Body
  <2> QED
    BY <1>1, <1>3
<1> QED
  BY <1>2, <1>4, PowerLaw

(* No place counts for nothing.                                            *)
LEMMA PlacePositive == \A n \in Nat : Place[n] \in Nat /\ Place[n] >= 1
<1> DEFINE T == {n \in Nat : ~ (Place[n] >= 1)}
<1>1. \A n \in Nat : Place[n] \in Nat
  BY PlaceLaw
<1> SUFFICES ASSUME T # {} PROVE FALSE
  BY <1>1
<1>2. PICK m \in T : \A i \in T : m <= i
  BY LeastElement
<1>3. m # 0
  BY <1>2, PlaceLaw
<1>4. m - 1 \in Nat /\ m - 1 \notin T /\ (m - 1) + 1 = m
  BY <1>2, <1>3
<1>5. Place[m - 1] \in Nat /\ Place[m - 1] >= 1 /\ Place[m] = Base * Place[m - 1]
  BY <1>1, <1>4, PlaceLaw
<1>6. Base \in Nat /\ Base >= 2
  BY TransitAssumption
<1>7. ASSUME NEW a \in Nat, a >= 2, NEW b \in Nat, b >= 1 PROVE a * b >= 1
  <2>1. a - 1 \in Nat /\ (a - 1) * b \in Nat /\ (a - 1) * b = a * b - b
    BY <1>7, Product
  <2>2. a * b \in Nat
    BY Product
  <2> QED
    BY <1>7, <2>1, <2>2
<1>8. Place[m] >= 1
  BY <1>5, <1>6, <1>7
<1> QED
  BY <1>2, <1>8

(* Width bytes are enough for every expiry, whatever the base:             *)
(* u64::to_be_bytes loses nothing.  The last n bytes are those of the      *)
(* remainder by the n-th place, and the n-th place exceeds all expiries    *)
(* for n = Width.                                                          *)
LEMMA BytesInjective ==
    ASSUME NEW e \in Expiries, NEW f \in Expiries, to_be_bytes(e) = to_be_bytes(f)
    PROVE  e = f
<1>1. /\ Width \in Nat /\ Base \in Nat /\ Base >= 1
      /\ e \in Nat /\ f \in Nat /\ e < Place[Width] /\ f < Place[Width]
      /\ Place[Width] \in Nat
  <2>1. Width \in Nat /\ Base \in Nat /\ Base >= 1 /\ Expiries \subseteq 0..(Place[Width] - 1)
    BY TransitAssumption
  <2>2. Place[Width] \in Nat
    BY <2>1, PlaceLaw
  <2> QED
    BY <2>1, <2>2
<1>2. ASSUME NEW n \in 0..(Width - 1)
      PROVE  (e \div Place[n]) % Base = (f \div Place[n]) % Base
  <2>1. Width - n \in 1..Width /\ Width - (Width - n) = n
    BY <1>1
  <2>2. \A g : to_be_bytes(g)[Width - n] = (g \div Place[n]) % Base
    BY <2>1 DEF to_be_bytes
  <2> QED
    BY <2>2
<1> DEFINE T == {n \in 0..Width : e % Place[n] # f % Place[n]}
<1>3. T = {}
  <2> SUFFICES ASSUME T # {} PROVE FALSE
    OBVIOUS
  <2>0. T \in SUBSET Nat
    BY <1>1
  <2>1. PICK m \in T : \A i \in T : m <= i
    BY <2>0, LeastElement
  <2>2. m # 0
    <3>1. Place[0] = 1 /\ e % 1 = 0 /\ f % 1 = 0
      BY <1>1, PlaceLaw
    <3> QED
      BY <3>1, <2>1
  <2>3. m - 1 \in 0..(Width - 1) /\ m - 1 \in Nat /\ m - 1 \notin T /\ (m - 1) + 1 = m
    BY <2>1, <2>2, <1>1
  <2> DEFINE p == Place[m - 1]
  <2>4. p \in Nat /\ p >= 1 /\ Place[m] = Base * p
    BY <2>3, PlaceLaw, PlacePositive
  <2>5. e % p = f % p /\ (e \div p) % Base = (f \div p) % Base
    <3>1. m - 1 \in 0..Width
      BY <2>3, <1>1
    <3> QED
      BY <3>1, <2>3, <1>2
  <2> HIDE DEF p
  <2>6. Place[m] = p * Base
    BY <2>4, <1>1
  <2>7. /\ e % (p * Base) = (e % p) + p * ((e \div p) % Base)
        /\ f % (p * Base) = (f % p) + p * ((f \div p) % Base)
    <3>1. ASSUME NEW a \in Nat
          PROVE  a % (p * Base) = (a % p) + p * ((a \div p) % Base)
      BY <2>4, <1>1, Quotients
    <3> QED
      BY <3>1, <1>1
  <2>8. e % (p * Base) = f % (p * Base)
    BY <2>5, <2>7, Zenon
  <2>9. e % Place[m] = f % Place[m]
    BY <2>6, <2>8, Zenon
  <2> QED
    BY <2>1, <2>9
<1>4. e % Place[Width] = f % Place[Width]
  BY <1>1, <1>3
<1>5. ASSUME NEW a \in Nat, NEW b \in Nat, a < b PROVE a % b = a
  BY <1>5
<1>6. e % Place[Width] = e /\ f % Place[Width] = f
  BY <1>1, <1>5
<1> QED
  BY <1>4, <1>6

(* The bytes of a voucher's fields, with and without the tag.              *)
LEMMA BytesAt ==
    ASSUME NEW relay \in NodeIds, NEW peer \in NodeIds, NEW e \in Expiries
    PROVE  /\ to_be_bytes(e) \in Seq(Int) /\ Len(to_be_bytes(e)) = Width
           /\ UntaggedBytes(relay, peer, e) \in Seq(Int)
           /\ UntaggedBytes(relay, peer, e)[1] = relay
           /\ compose_signing_bytes(relay, peer, e) \in Seq(Int)
           /\ compose_signing_bytes(relay, peer, e)[1] = -1
           /\ compose_signing_bytes(relay, peer, e)[2] = relay
           /\ compose_signing_bytes(relay, peer, e)[3] = peer
           /\ Len(compose_signing_bytes(relay, peer, e)) = Width + 3
           /\ \A i \in 1..Width :
                 compose_signing_bytes(relay, peer, e)[i + 3] = to_be_bytes(e)[i]
<1>1. /\ relay \in Int /\ peer \in Int /\ Width \in Nat
      /\ Base \in Nat \ {0} /\ e \in Nat
  BY TransitAssumption
<1> DEFINE b == to_be_bytes(e)
<1>2. b \in Seq(Int) /\ Len(b) = Width
  <2>1. ASSUME NEW i \in 1..Width PROVE (e \div Place[Width - i]) % Base \in Int
    <3>1. Width - i \in Nat
      BY <1>1
    <3>2. Place[Width - i] \in Nat /\ Place[Width - i] >= 1
      BY <3>1, PlacePositive
    <3>3. e \div Place[Width - i] \in Nat
      BY <1>1, <3>2, Division
    <3> QED
      BY <1>1, <3>3
  <2> QED
    BY <1>1, <2>1 DEF to_be_bytes
<1> HIDE DEF b
<1>3. /\ <<relay, peer>> \o b \in Seq(Int) /\ (<<relay, peer>> \o b)[1] = relay
      /\ (<<relay, peer>> \o b)[2] = peer
      /\ Len(<<relay, peer>> \o b) = Width + 2
      /\ \A i \in 1..Width : (<<relay, peer>> \o b)[i + 2] = b[i]
  BY <1>1, <1>2
<1> DEFINE c == <<-1>> \o (<<relay, peer>> \o b)
<1>4. /\ c \in Seq(Int) /\ c[1] = -1 /\ c[2] = relay /\ c[3] = peer /\ Len(c) = Width + 3
      /\ \A i \in 1..Width : c[i + 3] = b[i]
  <2> DEFINE d == <<relay, peer>> \o b
  <2>1. /\ d \in Seq(Int) /\ Len(d) = Width + 2 /\ d[1] = relay /\ d[2] = peer
        /\ \A i \in 1..Width : d[i + 2] = b[i]
    BY <1>3
  <2> HIDE DEF d
  <2>2. /\ <<-1>> \o d \in Seq(Int) /\ (<<-1>> \o d)[1] = -1 /\ Len(<<-1>> \o d) = Len(d) + 1
        /\ \A j \in 1..Len(d) : (<<-1>> \o d)[j + 1] = d[j]
    BY <2>1
  <2>3. 1 \in 1..Len(d) /\ 2 \in 1..Len(d)
    BY <1>1, <2>1
  <2>4. (<<-1>> \o d)[1 + 1] = relay /\ (<<-1>> \o d)[2 + 1] = peer
    BY <2>1, <2>2, <2>3
  <2>5. ASSUME NEW i \in 1..Width PROVE (<<-1>> \o d)[i + 3] = b[i]
    <3>1. i + 2 \in 1..Len(d) /\ (i + 2) + 1 = i + 3
      BY <1>1, <2>1
    <3> QED
      BY <2>1, <2>2, <3>1
  <2> QED
    BY <1>1, <2>1, <2>2, <2>4, <2>5 DEF d
<1>5. compose_signing_bytes(relay, peer, e) = c
  BY DEF compose_signing_bytes, VOUCHER_DOMAIN_TAG, b
<1> HIDE DEF c
<1> QED
  BY <1>2, <1>3, <1>4, <1>5 DEF b, UntaggedBytes

(* A message determines the voucher it was composed for, and is none of    *)
(* another protocol's.                                                     *)
LEMMA ComposeInjective ==
    \A r1, p1, r2, p2 \in NodeIds, e1, e2 \in Expiries :
        /\ compose_signing_bytes(r1, p1, e1) = compose_signing_bytes(r2, p2, e2)
             => r1 = r2 /\ p1 = p2 /\ e1 = e2
        /\ compose_signing_bytes(r1, p1, e1) # UntaggedBytes(r2, p2, e2)
<1> TAKE r1, p1, r2, p2 \in NodeIds, e1, e2 \in Expiries
<1>1. compose_signing_bytes(r1, p1, e1) # UntaggedBytes(r2, p2, e2)
  <2>1. r2 \in Nat
    BY TransitAssumption
  <2>2. PICK c : c = compose_signing_bytes(r1, p1, e1)
    OBVIOUS
  <2>3. c[1] = -1
    <3>1. compose_signing_bytes(r1, p1, e1)[1] = -1
      BY BytesAt
    <3> QED
      BY <2>2, <3>1, Zenon
  <2>4. UntaggedBytes(r2, p2, e2)[1] = r2
    BY BytesAt
  <2>5. r2 # -1
    BY <2>1
  <2> QED
    BY <2>2, <2>3, <2>4, <2>5, Zenon
<1>2. ASSUME compose_signing_bytes(r1, p1, e1) = compose_signing_bytes(r2, p2, e2)
      PROVE  r1 = r2 /\ p1 = p2 /\ e1 = e2
  <2> DEFINE Fields(c, r, p, e) ==
                 c[2] = r /\ c[3] = p /\ \A i \in 1..Width : c[i + 3] = to_be_bytes(e)[i]
  <2>1. ASSUME NEW r \in NodeIds, NEW p \in NodeIds, NEW e \in Expiries
        PROVE  Fields(compose_signing_bytes(r, p, e), r, p, e)
    BY BytesAt
  <2> HIDE DEF Fields
  <2>2. PICK c : c = compose_signing_bytes(r1, p1, e1)
    OBVIOUS
  <2>3. Fields(c, r1, p1, e1) /\ Fields(c, r2, p2, e2)
    BY <1>2, <2>1, <2>2, Zenon
  <2> USE DEF Fields
  <2>4. r1 = r2 /\ p1 = p2 /\ \A i \in 1..Width : to_be_bytes(e1)[i] = to_be_bytes(e2)[i]
    BY <2>3, Zenon
  <2>5. to_be_bytes(e1) = to_be_bytes(e2)
    BY <2>4 DEF to_be_bytes
  <2> QED
    BY <2>4, <2>5, BytesInjective
<1> QED
  BY <1>1, <1>2

(* Every step keeps what is known of the signatures and of the slice.      *)
LEMMA TransitStep == TransitInv /\ [Next]_vars => TransitInv'
<1> SUFFICES ASSUME TransitInv, [Next]_vars PROVE TransitInv'
  OBVIOUS
<1> DEFINE T == [key : NodeIds, over : Seq(Int)]
<1>1. ASSUME NEW m \in T, made' = Append(made, m), issued \subseteq issued',
             UNCHANGED <<sent, slice>>,
             \/ \E relay \in Relays, peer \in NodeIds, expire \in Expiries :
                   SignedFor(m, relay, peer, expire) /\ <<relay, peer, expire>> \in issued'
             \/ SignedElsewhere(m)
      PROVE  TransitInv'
  <2>1. /\ made' \in Seq(T) /\ Len(made') = Len(made) + 1 /\ Len(made) \in Nat
        /\ \A i \in 1..Len(made) : made'[i] = made[i]
        /\ made'[Len(made) + 1] = m
        /\ DOMAIN made = 1..Len(made) /\ DOMAIN made' = 1..Len(made')
    BY <1>1 DEF TransitInv
  <2>2. MadeInv'
    <3> SUFFICES ASSUME NEW i \in 1..(Len(made) + 1)
                 PROVE  \/ \E relay \in Relays, peer \in NodeIds, expire \in Expiries :
                              /\ SignedFor(made'[i], relay, peer, expire)
                              /\ <<relay, peer, expire>> \in issued'
                        \/ SignedElsewhere(made'[i])
      BY <2>1 DEF MadeInv, SignedFor, SignedElsewhere
    <3>1. CASE i \in 1..Len(made)
      <4>1. made'[i] = made[i] /\ i \in DOMAIN made
        BY <2>1, <3>1
      <4>2. \/ \E relay \in Relays, peer \in NodeIds, expire \in Expiries :
                  /\ SignedFor(made[i], relay, peer, expire)
                  /\ <<relay, peer, expire>> \in issued
            \/ SignedElsewhere(made[i])
        BY <4>1, Zenon DEF TransitInv, MadeInv
      <4> QED
        BY <1>1, <4>1, <4>2, Zenon
    <3>2. CASE i = Len(made) + 1
      BY <1>1, <2>1, <3>2, Zenon
    <3>3. i \in 1..Len(made) \/ i = Len(made) + 1
      BY <2>1
    <3> QED
      BY <3>1, <3>2, <3>3
  <2>3. SliceInv'
    BY <1>1 DEF TransitInv, SliceInv
  <2> QED
    BY <2>1, <2>2, <2>3 DEF TransitInv
<1>2. ASSUME NEW relay \in Relays, NEW peer \in NodeIds, NEW number \in Expiries,
             sign(relay, peer, number)
      PROVE  TransitInv'
  <2> DEFINE m == [key |-> relay, over |-> compose_signing_bytes(relay, peer, number)]
  <2>1. relay \in NodeIds
    BY TransitAssumption
  <2>2. m \in T
    BY <2>1, BytesAt
  <2>3. SignedFor(m, relay, peer, number) /\ <<relay, peer, number>> \in issued'
    BY <1>2 DEF sign, SignedFor
  <2>4. /\ made' = Append(made, m) /\ issued \subseteq issued'
        /\ UNCHANGED <<sent, slice>>
    BY <1>2 DEF sign
  <2> HIDE DEF m
  <2> QED
    BY <1>1, <2>2, <2>3, <2>4
<1>3. ASSUME NEW relay \in Relays, NEW peer \in NodeIds, NEW number \in Expiries,
             SignElsewhere(relay, peer, number)
      PROVE  TransitInv'
  <2> DEFINE m == [key |-> relay, over |-> UntaggedBytes(relay, peer, number)]
  <2>1. relay \in NodeIds
    BY TransitAssumption
  <2>2. m \in T
    BY <2>1, BytesAt
  <2>3. SignedElsewhere(m)
    BY DEF SignedElsewhere
  <2>4. /\ made' = Append(made, m) /\ issued \subseteq issued'
        /\ UNCHANGED <<sent, slice>>
    BY <1>3 DEF SignElsewhere, UntaggedBytes
  <2> HIDE DEF m
  <2> QED
    BY <1>1, <2>2, <2>3, <2>4
<1>4. ASSUME NEW f \in TransitFrame, NEW n \in 0..(Len(encode_frame(f)) + 1),
             NEW next \in {0, 1}, Transfer(f, n, next)
      PROVE  TransitInv'
  <2>1. UNCHANGED <<made, issued>> /\ sent' = <<f>> /\ CutOf(slice', f, n, next)
    BY <1>4 DEF Transfer, CutOf
  <2>2. SliceInv'
    BY <2>1 DEF SliceInv
  <2> QED
    BY <2>1, <2>2 DEF TransitInv, MadeInv, SignedFor, SignedElsewhere
<1>5. CASE UNCHANGED vars
  BY <1>5 DEF vars, TransitInv, MadeInv, SliceInv, SignedFor, SignedElsewhere
<1> QED
  BY <1>2, <1>3, <1>4, <1>5 DEF Next

(* The inductive invariant holds throughout.                               *)
THEOREM TransitInvariant == Spec => []TransitInv
<1>1. Init => TransitInv
  BY DEF Init, TransitInv, MadeInv, SliceInv
<1> QED
  BY <1>1, TransitStep, PTL DEF Spec

(* Whatever relays sign and other protocols sign with the same keys, a     *)
(* voucher that verifies and has not expired was issued by this relay, for *)
(* this peer and until this moment.                                        *)
THEOREM VouchersAreIssued == Spec => []AcceptedWasIssued
<1>1. TransitInv => AcceptedWasIssued
  <2> SUFFICES ASSUME TransitInv, NEW v \in Voucher, NEW key \in Relays,
                      NEW now \in 0..Place[Width], verify(v, key), ~is_expired(v, now)
               PROVE  /\ <<key, v.peer_node_id, v.expire_unix_secs>> \in issued
                      /\ now < v.expire_unix_secs
    BY DEF AcceptedWasIssued
  <2>1. /\ v.peer_node_id \in NodeIds /\ v.expire_unix_secs \in Expiries
        /\ key \in NodeIds /\ v.relay_node_id = key
    BY TransitAssumption DEF Voucher, verify
  <2>2. PICK p \in NodeIds, e \in Expiries : p = v.peer_node_id /\ e = v.expire_unix_secs
    BY <2>1
  <2>3. now < e
    <3>1. now \in Int
      OBVIOUS
    <3>2. e \in Int
      BY TransitAssumption
    <3> QED
      BY <2>2, <3>1, <3>2 DEF is_expired
  <2> DEFINE i == v.signature
             c == compose_signing_bytes(key, p, e)
  <2>4. i \in DOMAIN made /\ made[i] = [key |-> key, over |-> c]
    BY <2>1, <2>2 DEF verify
  <2>5. ~SignedElsewhere(made[i])
    <3> SUFFICES ASSUME NEW k \in Relays, NEW peer \in NodeIds, NEW number \in Expiries,
                        made[i] = [key |-> k, over |-> UntaggedBytes(k, peer, number)]
                 PROVE  FALSE
      BY DEF SignedElsewhere
    <3>1. c = UntaggedBytes(k, peer, number) /\ k \in NodeIds
      BY <2>4, TransitAssumption
    <3> QED
      BY <2>1, <2>2, <3>1, ComposeInjective, SMT
  <2>6. PICK relay \in Relays, peer \in NodeIds, expire \in Expiries :
           SignedFor(made[i], relay, peer, expire) /\ <<relay, peer, expire>> \in issued
    BY <2>4, <2>5, Zenon DEF TransitInv, MadeInv
  <2>7. c = compose_signing_bytes(relay, peer, expire) /\ relay \in NodeIds
    BY <2>4, <2>6, TransitAssumption DEF SignedFor
  <2>8. key = relay /\ p = peer /\ e = expire
    BY <2>1, <2>2, <2>6, <2>7, ComposeInjective, SMT
  <2> QED
    BY <2>2, <2>3, <2>6, <2>8
<1> QED
  BY <1>1, TransitInvariant, PTL

-----------------------------------------------------------------------------
(* Frames.  b holds the numbers of s behind the first k.                   *)
At(b, k, s) == \A i \in 1..Len(s) : b[k + i] = s[i]

(* What a number in front of a sequence adds to it.                        *)
LEMMA ConsAt ==
    ASSUME NEW x \in Int, NEW s \in Seq(Int)
    PROVE  /\ Cons(x, s) \in Seq(Int) /\ Len(Cons(x, s)) = Len(s) + 1 /\ Len(s) \in Nat
           /\ \A b, k : k \in Nat /\ At(b, k, Cons(x, s)) => b[k + 1] = x /\ At(b, k + 1, s)
<1>1. /\ Cons(x, s) \in Seq(Int) /\ Len(Cons(x, s)) = Len(s) + 1 /\ Cons(x, s)[1] = x
      /\ Len(s) \in Nat /\ \A i \in 1..Len(s) : Cons(x, s)[i + 1] = s[i]
  BY DEF Cons
<1>2. ASSUME NEW b, NEW k \in Nat, At(b, k, Cons(x, s))
      PROVE  b[k + 1] = x /\ At(b, k + 1, s)
  <2>1. 1 \in 1..Len(Cons(x, s))
    BY <1>1
  <2>2. ASSUME NEW i \in 1..Len(s) PROVE b[(k + 1) + i] = s[i]
    <3>1. i + 1 \in 1..Len(Cons(x, s)) /\ k + (i + 1) = (k + 1) + i
      BY <1>1
    <3> QED
      BY <1>1, <1>2, <3>1 DEF At
  <2> QED
    BY <1>1, <1>2, <2>1, <2>2 DEF At
<1> QED
  BY <1>1, <1>2

(* A voucher, and the list of bytes with its length in front, can be read  *)
(* back from where they stand.                                             *)
LEMMA VoucherAt ==
    ASSUME NEW v \in Voucher
    PROVE  /\ encode_voucher(v) \in Seq(Int) /\ Len(encode_voucher(v)) = 4
           /\ \A b : \A w \in Voucher, k \in Nat :
                 At(b, k, encode_voucher(v)) /\ At(b, k, encode_voucher(w)) => v = w
<1>1. ASSUME NEW w \in Voucher
      PROVE  /\ encode_voucher(w) \in Seq(Int) /\ Len(encode_voucher(w)) = 4
             /\ encode_voucher(w)[1] = w.relay_node_id
             /\ encode_voucher(w)[2] = w.peer_node_id
             /\ encode_voucher(w)[3] = w.expire_unix_secs
             /\ encode_voucher(w)[4] = w.signature
  <2>1. /\ w.relay_node_id \in NodeIds /\ w.peer_node_id \in NodeIds
        /\ w.expire_unix_secs \in Expiries /\ w.signature \in 1..MaxMade
    BY DEF Voucher
  <2>2. /\ w.relay_node_id \in Int /\ w.peer_node_id \in Int
        /\ w.expire_unix_secs \in Int /\ w.signature \in Int
    <3>1. NodeIds \subseteq Int /\ Expiries \subseteq Int
      BY TransitAssumption
    <3>2. \A x \in 1..MaxMade : x \in Int
      OBVIOUS
    <3> QED
      BY <2>1, <3>1, <3>2, Zenon
  <2> QED
    BY <2>2 DEF encode_voucher
<1>2. ASSUME NEW w \in Voucher, NEW b, NEW k \in Nat,
             At(b, k, encode_voucher(v)), At(b, k, encode_voucher(w))
      PROVE  v = w
  <2>1. /\ v.relay_node_id = w.relay_node_id /\ v.peer_node_id = w.peer_node_id
        /\ v.expire_unix_secs = w.expire_unix_secs /\ v.signature = w.signature
    <3> DEFINE Holds(x) == /\ b[k + 1] = x.relay_node_id /\ b[k + 2] = x.peer_node_id
                           /\ b[k + 3] = x.expire_unix_secs /\ b[k + 4] = x.signature
    <3>1. ASSUME NEW x \in Voucher, At(b, k, encode_voucher(x)) PROVE Holds(x)
      <4>1. \A i \in 1..4 : b[k + i] = encode_voucher(x)[i]
        BY <1>1, <3>1 DEF At
      <4>2. 1 \in 1..4 /\ 2 \in 1..4 /\ 3 \in 1..4 /\ 4 \in 1..4
        OBVIOUS
      <4> QED
        BY <1>1, <4>1, <4>2
    <3>2. Holds(v) /\ Holds(w)
      BY <1>2, <3>1
    <3> QED
      BY <3>2
  <2> QED
    BY <2>1 DEF Voucher
<1> QED
  BY <1>1, <1>2

LEMMA VecAt ==
    ASSUME NEW s \in ShortVecs
    PROVE  /\ s \in Seq(Int) /\ Len(s) \in Nat
           /\ encode_vec(s) \in Seq(Int) /\ Len(encode_vec(s)) = Len(s) + 1
           /\ \A b : \A t \in ShortVecs, k \in Nat :
                 At(b, k, encode_vec(s)) /\ At(b, k, encode_vec(t)) => s = t
<1>1. ASSUME NEW t \in ShortVecs
      PROVE  t \in Seq(Int) /\ Len(t) \in Nat /\ encode_vec(t) = Cons(Len(t), t)
  <2>1. t \in Seq(Int)
    <3>1. <<>> \in Seq(Int) /\ <<0>> \in Seq(Int) /\ <<1, 0>> \in Seq(Int)
      OBVIOUS
    <3>2. t = <<>> \/ t = <<0>> \/ t = <<1, 0>>
      BY Zenon DEF ShortVecs
    <3> QED
      BY <3>1, <3>2, Zenon
  <2>2. encode_vec(t) = Cons(Len(t), t)
    BY DEF encode_vec, Cons
  <2> QED
    BY <2>1, <2>2
<1>2. ASSUME NEW t \in ShortVecs, NEW b, NEW k \in Nat,
             At(b, k, encode_vec(s)), At(b, k, encode_vec(t))
      PROVE  s = t
  <2>1. /\ b[k + 1] = Len(s) /\ At(b, k + 1, s)
        /\ b[k + 1] = Len(t) /\ At(b, k + 1, t)
    <3>1. ASSUME NEW x \in ShortVecs, At(b, k, encode_vec(x))
          PROVE  b[k + 1] = Len(x) /\ At(b, k + 1, x)
      <4>1. At(b, k, Cons(Len(x), x)) /\ Len(x) \in Int /\ x \in Seq(Int)
        BY <1>1, <3>1
      <4> QED
        BY <4>1, ConsAt
    <3> QED
      BY <1>2, <3>1
  <2>2. Len(s) = Len(t) /\ \A i \in 1..Len(s) : s[i] = t[i]
    BY <2>1 DEF At
  <2> QED
    BY <1>1, <2>2
<1> QED
  BY <1>1, <1>2, ConsAt

(* So can an optional value: its first number says whether there is one.   *)
LEMMA OptionAt ==
    /\ \A o \in Option(Voucher) : encode_option(o, encode_voucher) \in Seq(Int)
    /\ \A b : \A o, q \in Option(Voucher), k \in Nat :
          /\ At(b, k, encode_option(o, encode_voucher))
          /\ At(b, k, encode_option(q, encode_voucher))
          => o = q
    /\ \A o \in Option(ShortVecs) : encode_option(o, encode_vec) \in Seq(Int)
    /\ \A b : \A o, q \in Option(ShortVecs), k \in Nat :
          /\ At(b, k, encode_option(o, encode_vec))
          /\ At(b, k, encode_option(q, encode_vec))
          => o = q
<1>1. <<0>> \in Seq(Int) /\ <<0>>[1] = 0 /\ Len(<<0>>) = 1
  OBVIOUS
<1>2. ASSUME NEW b, NEW k \in Nat, At(b, k, << 0 >>) PROVE b[k + 1] = 0
  BY <1>1, <1>2 DEF At
<1>3. ASSUME NEW o \in Option(Voucher)
      PROVE  \/ o = <<>> /\ encode_option(o, encode_voucher) = <<0>>
             \/ \E v \in Voucher :
                   o = <<v>> /\ encode_option(o, encode_voucher) = Cons(1, encode_voucher(v))
  BY DEF Option, encode_option, Cons
<1>4. ASSUME NEW o \in Option(ShortVecs)
      PROVE  \/ o = <<>> /\ encode_option(o, encode_vec) = <<0>>
             \/ \E v \in ShortVecs :
                   o = <<v>> /\ encode_option(o, encode_vec) = Cons(1, encode_vec(v))
  BY DEF Option, encode_option, Cons
<1>5. ASSUME NEW o \in Option(Voucher) PROVE encode_option(o, encode_voucher) \in Seq(Int)
  <2>1. \A v \in Voucher : Cons(1, encode_voucher(v)) \in Seq(Int)
    BY VoucherAt, ConsAt
  <2> QED
    BY <1>1, <1>3, <2>1, Zenon
<1>6. ASSUME NEW o \in Option(ShortVecs) PROVE encode_option(o, encode_vec) \in Seq(Int)
  <2>1. \A v \in ShortVecs : Cons(1, encode_vec(v)) \in Seq(Int)
    BY VecAt, ConsAt
  <2> QED
    BY <1>1, <1>4, <2>1, Zenon
<1>7. ASSUME NEW o \in Option(Voucher), NEW q \in Option(Voucher), NEW b, NEW k \in Nat,
             At(b, k, encode_option(o, encode_voucher)),
             At(b, k, encode_option(q, encode_voucher))
      PROVE  o = q
  <2> DEFINE Holds(p, v) == b[k + 1] = 1 /\ p = <<v>> /\ At(b, k + 1, encode_voucher(v))
  <2>1. ASSUME NEW p \in Option(Voucher), At(b, k, encode_option(p, encode_voucher))
        PROVE  (p = <<>> /\ b[k + 1] = 0) \/ \E v \in Voucher : Holds(p, v)
    <3>1. ASSUME NEW v \in Voucher, At(b, k, Cons(1, encode_voucher(v)))
          PROVE  b[k + 1] = 1 /\ At(b, k + 1, encode_voucher(v))
      <4>1. 1 \in Int /\ encode_voucher(v) \in Seq(Int)
        BY VoucherAt
      <4> QED
        BY <3>1, <4>1, ConsAt
    <3> QED
      BY <1>2, <1>3, <2>1, <3>1, Zenon
  <2>2. ASSUME NEW v \in Voucher, NEW w \in Voucher, Holds(o, v), Holds(q, w) PROVE o = q
    <3>1. k + 1 \in Nat
      OBVIOUS
    <3> QED
      BY <2>2, <3>1, VoucherAt, Zenon
  <2>3. 0 # 1
    OBVIOUS
  <2> HIDE DEF Holds
  <2>4. (\E v \in Voucher : Holds(o, v)) \/ (o = <<>> /\ b[k + 1] = 0)
    BY <1>7, <2>1
  <2>5. (\E v \in Voucher : Holds(q, v)) \/ (q = <<>> /\ b[k + 1] = 0)
    BY <1>7, <2>1
  <2>6. \A p, v : Holds(p, v) => b[k + 1] = 1
    BY DEF Holds
  <2> QED
    BY <2>2, <2>3, <2>4, <2>5, <2>6, Zenon
<1>8. ASSUME NEW o \in Option(ShortVecs), NEW q \in Option(ShortVecs), NEW b, NEW k \in Nat,
             At(b, k, encode_option(o, encode_vec)),
             At(b, k, encode_option(q, encode_vec))
      PROVE  o = q
  <2> DEFINE Holds(p, v) == b[k + 1] = 1 /\ p = <<v>> /\ At(b, k + 1, encode_vec(v))
  <2>1. ASSUME NEW p \in Option(ShortVecs), At(b, k, encode_option(p, encode_vec))
        PROVE  (p = <<>> /\ b[k + 1] = 0) \/ \E v \in ShortVecs : Holds(p, v)
    <3>1. ASSUME NEW v \in ShortVecs, At(b, k, Cons(1, encode_vec(v)))
          PROVE  b[k + 1] = 1 /\ At(b, k + 1, encode_vec(v))
      <4>1. 1 \in Int /\ encode_vec(v) \in Seq(Int)
        BY VecAt
      <4> QED
        BY <3>1, <4>1, ConsAt
    <3> QED
      BY <1>2, <1>4, <2>1, <3>1, Zenon
  <2>2. ASSUME NEW v \in ShortVecs, NEW w \in ShortVecs, Holds(o, v), Holds(q, w)
        PROVE  o = q
    <3>1. k + 1 \in Nat
      OBVIOUS
    <3> QED
      BY <2>2, <3>1, VecAt, Zenon
  <2>3. 0 # 1
    OBVIOUS
  <2> HIDE DEF Holds
  <2>4. (\E v \in ShortVecs : Holds(o, v)) \/ (o = <<>> /\ b[k + 1] = 0)
    BY <1>8, <2>1
  <2>5. (\E v \in ShortVecs : Holds(q, v)) \/ (q = <<>> /\ b[k + 1] = 0)
    BY <1>8, <2>1
  <2>6. \A p, v : Holds(p, v) => b[k + 1] = 1
    BY DEF Holds
  <2> QED
    BY <2>2, <2>3, <2>4, <2>5, <2>6, Zenon
<1> QED
  BY <1>5, <1>6, <1>7, <1>8, Zenon

(* So can an outcome.                                                      *)
Cat(s, t) == s \o t

LEMMA CatAt ==
    ASSUME NEW s \in Seq(Int), NEW t \in Seq(Int)
    PROVE  /\ Cat(s, t) \in Seq(Int)
           /\ \A b : \A k \in Nat :
                 At(b, k, Cat(s, t)) => At(b, k, s) /\ At(b, k + Len(s), t)
<1>1. /\ Cat(s, t) \in Seq(Int) /\ Len(Cat(s, t)) = Len(s) + Len(t)
      /\ Len(s) \in Nat /\ Len(t) \in Nat
      /\ \A i \in 1..Len(s) : Cat(s, t)[i] = s[i]
      /\ \A i \in 1..Len(t) : Cat(s, t)[Len(s) + i] = t[i]
  BY DEF Cat
<1>2. ASSUME NEW b, NEW k \in Nat, At(b, k, Cat(s, t))
      PROVE  At(b, k, s) /\ At(b, k + Len(s), t)
  <2>1. ASSUME NEW i \in 1..Len(s) PROVE b[k + i] = s[i]
    <3>1. i \in 1..Len(Cat(s, t))
      BY <1>1
    <3> QED
      BY <1>1, <1>2, <3>1 DEF At
  <2>2. ASSUME NEW i \in 1..Len(t) PROVE b[(k + Len(s)) + i] = t[i]
    <3>1. Len(s) + i \in 1..Len(Cat(s, t)) /\ k + (Len(s) + i) = (k + Len(s)) + i
      BY <1>1
    <3> QED
      BY <1>1, <1>2, <3>1 DEF At
  <2> QED
    BY <2>1, <2>2 DEF At
<1> QED
  BY <1>1, <1>2

LEMMA ReserveAt ==
    /\ \A o \in ReserveOutcome : encode_outcome(o) \in Seq(Int)
    /\ \A b : \A o, q \in ReserveOutcome, k \in Nat :
          At(b, k, encode_outcome(o)) /\ At(b, k, encode_outcome(q)) => o = q
<1> DEFINE Granted(o, v, c, d) ==
               /\ o = [tag |-> 0, voucher |-> v, max_circuit_bytes |-> c,
                       max_circuit_duration_secs |-> d]
               /\ encode_outcome(o) = Cons(0, Cat(encode_voucher(v), <<c, d>>))
           Refused(o, e) ==
               o = [tag |-> 1, error |-> e] /\ encode_outcome(o) = Cons(1, <<e>>)
<1>1. ASSUME NEW o \in ReserveOutcome
      PROVE  \/ \E v \in Voucher, c, d \in {0, 1} : Granted(o, v, c, d)
             \/ \E e \in 0..6 : Refused(o, e)
  <2>1. CASE o \in [tag : {1}, error : 0..6]
    <3>1. o = [tag |-> 1, error |-> o.error] /\ o.error \in 0..6
      BY <2>1
    <3>2. encode_outcome(o) = Cons(1, <<o.error>>)
      BY <3>1 DEF encode_outcome, Cons
    <3> QED
      BY <3>1, <3>2
  <2>2. CASE o \in [tag : {0}, voucher : Voucher, max_circuit_bytes : {0, 1},
                    max_circuit_duration_secs : {0, 1}]
    <3>1. /\ o = [tag |-> 0, voucher |-> o.voucher,
                  max_circuit_bytes |-> o.max_circuit_bytes,
                  max_circuit_duration_secs |-> o.max_circuit_duration_secs]
          /\ o.voucher \in Voucher /\ o.max_circuit_bytes \in {0, 1}
          /\ o.max_circuit_duration_secs \in {0, 1}
          /\ o.tag = 0 /\ "voucher" \in DOMAIN o
      BY <2>2
    <3>2. encode_outcome(o) =
            Cons(0, Cat(encode_voucher(o.voucher),
                        <<o.max_circuit_bytes, o.max_circuit_duration_secs>>))
      BY <3>1 DEF encode_outcome, Cons, Cat
    <3> QED
      BY <3>1, <3>2
  <2> QED
    BY <2>1, <2>2 DEF ReserveOutcome
<1>2. ASSUME NEW v \in Voucher, NEW c \in {0, 1}, NEW d \in {0, 1}
      PROVE  /\ Cons(0, Cat(encode_voucher(v), <<c, d>>)) \in Seq(Int)
             /\ \A b : \A k \in Nat :
                   At(b, k, Cons(0, Cat(encode_voucher(v), <<c, d>>))) =>
                     /\ b[k + 1] = 0 /\ At(b, k + 1, encode_voucher(v))
                     /\ b[k + 6] = c /\ b[k + 7] = d
  <2>1. <<c, d>> \in Seq(Int)
    OBVIOUS
  <2>2. encode_voucher(v) \in Seq(Int) /\ Len(encode_voucher(v)) = 4
    BY VoucherAt
  <2> DEFINE t == Cat(encode_voucher(v), <<c, d>>)
  <2>3. t \in Seq(Int)
    BY <2>1, <2>2, CatAt
  <2>4. ASSUME NEW b, NEW k \in Nat, At(b, k, Cons(0, t))
        PROVE  /\ b[k + 1] = 0 /\ At(b, k + 1, encode_voucher(v))
               /\ b[k + 6] = c /\ b[k + 7] = d
    <3>1. b[k + 1] = 0 /\ At(b, k + 1, t)
      <4> HIDE DEF t
      <4> QED
        BY <2>3, <2>4, ConsAt
    <3>2. At(b, k + 1, encode_voucher(v)) /\ At(b, (k + 1) + Len(encode_voucher(v)), <<c, d>>)
      <4>1. k + 1 \in Nat
        OBVIOUS
      <4> QED
        BY <2>1, <2>2, <3>1, <4>1, CatAt
    <3>3. (k + 1) + Len(encode_voucher(v)) = k + 5
      BY <2>2
    <3>4. b[k + 6] = c /\ b[k + 7] = d
      <4>1. At(b, k + 5, <<c, d>>)
        BY <3>2, <3>3, Zenon
      <4>2. \A i \in 1..2 : b[(k + 5) + i] = <<c, d>>[i]
        BY <4>1 DEF At
      <4> QED
        BY <4>2
    <3> QED
      BY <3>1, <3>2, <3>4
  <2>5. Cons(0, t) \in Seq(Int)
    <3> HIDE DEF t
    <3>1. 0 \in Int
      OBVIOUS
    <3> QED
      BY <2>3, <3>1, ConsAt
  <2> QED
    BY <2>4, <2>5
<1>3. ASSUME NEW e \in 0..6
      PROVE  /\ Cons(1, <<e>>) \in Seq(Int)
             /\ \A b : \A k \in Nat : At(b, k, Cons(1, <<e>>)) => b[k + 1] = 1 /\ b[k + 2] = e
  <2> DEFINE t == <<e>>
  <2>1. t \in Seq(Int) /\ Len(t) = 1 /\ t[1] = e /\ 1 \in Int
    OBVIOUS
  <2> HIDE DEF t
  <2>2. Cons(1, t) \in Seq(Int)
    BY <2>1, ConsAt
  <2>3. ASSUME NEW b, NEW k \in Nat, At(b, k, Cons(1, t))
        PROVE  b[k + 1] = 1 /\ b[k + 2] = e
    <3>1. b[k + 1] = 1 /\ At(b, k + 1, t)
      BY <2>1, <2>3, ConsAt
    <3> QED
      BY <2>1, <3>1 DEF At
  <2> QED
    BY <2>2, <2>3 DEF t
<1>4. ASSUME NEW o \in ReserveOutcome PROVE encode_outcome(o) \in Seq(Int)
  BY <1>1, <1>2, <1>3, ZenonT(30)
<1>5. ASSUME NEW o \in ReserveOutcome, NEW q \in ReserveOutcome, NEW b, NEW k \in Nat,
             At(b, k, encode_outcome(o)), At(b, k, encode_outcome(q))
      PROVE  o = q
  <2> DEFINE IsGrant(p) == \E v \in Voucher, c, d \in {0, 1} :
                              /\ p = [tag |-> 0, voucher |-> v, max_circuit_bytes |-> c,
                                      max_circuit_duration_secs |-> d]
                              /\ b[k + 1] = 0 /\ At(b, k + 1, encode_voucher(v))
                              /\ b[k + 6] = c /\ b[k + 7] = d
             IsRefusal(p) == /\ p = [tag |-> 1, error |-> b[k + 2]]
                             /\ b[k + 1] = 1
  <2>1. ASSUME NEW p \in ReserveOutcome, At(b, k, encode_outcome(p))
        PROVE  IsGrant(p) \/ IsRefusal(p)
    <3>1. CASE \E v \in Voucher, c, d \in {0, 1} : Granted(p, v, c, d)
      <4>1. PICK v \in Voucher, c \in {0, 1}, d \in {0, 1} : Granted(p, v, c, d)
        BY <3>1, Zenon
      <4>2. At(b, k, Cons(0, Cat(encode_voucher(v), <<c, d>>)))
        BY <2>1, <4>1, Zenon
      <4>3. /\ b[k + 1] = 0 /\ At(b, k + 1, encode_voucher(v))
            /\ b[k + 6] = c /\ b[k + 7] = d
        <5>1. \A x : \A j \in Nat :
                 At(x, j, Cons(0, Cat(encode_voucher(v), <<c, d>>))) =>
                   /\ x[j + 1] = 0 /\ At(x, j + 1, encode_voucher(v))
                   /\ x[j + 6] = c /\ x[j + 7] = d
          BY <1>2
        <5> QED
          BY <4>2, <5>1, Zenon
      <4> QED
        BY <4>1, <4>3, Zenon
    <3>2. CASE \E e \in 0..6 : Refused(p, e)
      BY <1>3, <2>1, <3>2, ZenonT(30)
    <3> QED
      BY <1>1, <3>1, <3>2
  <2>2. ASSUME IsGrant(o), IsGrant(q) PROVE o = q
    <3>1. PICK v \in Voucher, c \in {0, 1}, d \in {0, 1} :
             /\ o = [tag |-> 0, voucher |-> v, max_circuit_bytes |-> c,
                     max_circuit_duration_secs |-> d]
             /\ At(b, k + 1, encode_voucher(v)) /\ b[k + 6] = c /\ b[k + 7] = d
      BY <2>2
    <3>2. PICK w \in Voucher, x \in {0, 1}, y \in {0, 1} :
             /\ q = [tag |-> 0, voucher |-> w, max_circuit_bytes |-> x,
                     max_circuit_duration_secs |-> y]
             /\ At(b, k + 1, encode_voucher(w)) /\ b[k + 6] = x /\ b[k + 7] = y
      BY <2>2
    <3>3. k + 1 \in Nat
      OBVIOUS
    <3>4. v = w
      BY <3>1, <3>2, <3>3, VoucherAt, Zenon
    <3>5. c = x /\ d = y
      BY <3>1, <3>2, Zenon
    <3> QED
      BY <3>1, <3>2, <3>4, <3>5, Zenon
  <2>3. IsGrant(o) => b[k + 1] = 0
    OBVIOUS
  <2>4. IsGrant(q) => b[k + 1] = 0
    OBVIOUS
  <2>5. IsGrant(o) \/ IsRefusal(o)
    BY <1>5, <2>1, Zenon
  <2>6. IsGrant(q) \/ IsRefusal(q)
    BY <1>5, <2>1, Zenon
  <2> HIDE DEF IsGrant
  <2> QED
    BY <2>2, <2>3, <2>4, <2>5, <2>6
<1> QED
  BY <1>4, <1>5, Zenon

LEMMA ConnectAt ==
    /\ \A o \in ConnectOutcome : encode_outcome(o) \in Seq(Int)
    /\ \A b : \A o, q \in ConnectOutcome, k \in Nat :
          At(b, k, encode_outcome(o)) /\ At(b, k, encode_outcome(q)) => o = q
<1>1. ASSUME NEW o \in ConnectOutcome
      PROVE  /\ encode_outcome(o) \in Seq(Int)
             /\ \A b : \A k \in Nat : At(b, k, encode_outcome(o)) =>
                  \/ o = [tag |-> 0] /\ b[k + 1] = 0
                  \/ o = [tag |-> 1, error |-> b[k + 2]] /\ b[k + 1] = 1
  <2>1. CASE o \in [tag : {0}]
    <3>1. o = [tag |-> 0]
      BY <2>1
    <3>2. o.tag = 0 /\ DOMAIN o = {"tag"}
      BY <3>1
    <3>3. encode_outcome(o) = <<0>>
      BY <3>2 DEF encode_outcome
    <3>4. <<0>> \in Seq(Int) /\ Len(<<0>>) = 1 /\ <<0>>[1] = 0
      OBVIOUS
    <3>5. ASSUME NEW b, NEW k \in Nat, At(b, k, << 0 >>) PROVE b[k + 1] = 0
      BY <3>4, <3>5 DEF At
    <3> QED
      BY <3>1, <3>3, <3>4, <3>5, Zenon
  <2>2. CASE o \in [tag : {1}, error : 0..6]
    <3>1. o = [tag |-> 1, error |-> o.error] /\ o.error \in 0..6
      BY <2>2
    <3>2. encode_outcome(o) = <<1, o.error>>
      BY <3>1 DEF encode_outcome
    <3>3. /\ <<1, o.error>> \in Seq(Int) /\ Len(<<1, o.error>>) = 2
          /\ <<1, o.error>>[1] = 1 /\ <<1, o.error>>[2] = o.error
      BY <3>1
    <3> QED
      BY <3>1, <3>2, <3>3 DEF At
  <2> QED
    BY <2>1, <2>2 DEF ConnectOutcome
<1>2. ASSUME NEW b, NEW o \in ConnectOutcome, NEW q \in ConnectOutcome, NEW k \in Nat,
             At(b, k, encode_outcome(o)), At(b, k, encode_outcome(q))
      PROVE  o = q
  <2> DEFINE Holds(p) == \/ p = [tag |-> 0] /\ b[k + 1] = 0
                         \/ p = [tag |-> 1, error |-> b[k + 2]] /\ b[k + 1] = 1
  <2>1. Holds(o) /\ Holds(q)
    BY <1>1, <1>2, Zenon
  <2> QED
    BY <2>1
<1> QED
  BY <1>1, <1>2, Zenon

(* A frame is read back from its numbers: no two frames are both the       *)
(* beginning of the same bytes.                                            *)
Frame0 == [tag : {0}, peer_id : NodeIds, reserved_flags : {0, 1}]
Frame1 == [tag : {1}, reservee_id : NodeIds, vec : ShortVecs]
Frame2 == [tag : {2}, reserve : ReserveOutcome]
Frame3 == [tag : {3}, target_id : NodeIds, voucher : Option(Voucher)]
Frame4 == [tag : {4}, connect : ConnectOutcome]
Frame5 == [tag : {5}, reason : Option(ShortVecs)]

Holds0(b, f) == b[1] = 0 /\ b[2] = f.peer_id /\ b[3] = f.reserved_flags
Holds1(b, f) == b[1] = 1 /\ b[2] = f.reservee_id /\ At(b, 2, encode_vec(f.vec))
Holds2(b, f) == b[1] = 2 /\ At(b, 1, encode_outcome(f.reserve))
Holds3(b, f) == b[1] = 3 /\ b[2] = f.target_id /\ At(b, 2, encode_option(f.voucher, encode_voucher))
Holds4(b, f) == b[1] = 4 /\ At(b, 1, encode_outcome(f.connect))
Holds5(b, f) == b[1] = 5 /\ At(b, 1, encode_option(f.reason, encode_vec))

LEMMA Frame0At ==
    ASSUME NEW f \in Frame0
    PROVE  /\ encode_frame(f) \in Seq(Int)
           /\ \A b : At(b, 0, encode_frame(f)) => Holds0(b, f)
<1>1. f.tag = 0 /\ f.peer_id \in Int /\ f.reserved_flags \in Int
  <2>1. f.tag = 0 /\ f.peer_id \in NodeIds /\ f.reserved_flags \in {0, 1}
    BY DEF Frame0
  <2>2. NodeIds \subseteq Int
    BY TransitAssumption
  <2>3. f.peer_id \in Int
    BY <2>1, <2>2, Zenon
  <2> QED
    BY <2>1, <2>3
<1> DEFINE t == <<f.peer_id, f.reserved_flags>>
<1>2. encode_frame(f) = Cons(0, t)
  BY <1>1 DEF encode_frame, Cons
<1>3. /\ t \in Seq(Int) /\ Len(t) = 2 /\ t[1] = f.peer_id /\ t[2] = f.reserved_flags
      /\ 0 \in Int
  BY <1>1
<1> HIDE DEF t
<1>4. encode_frame(f) \in Seq(Int)
  BY <1>2, <1>3, ConsAt
<1>5. ASSUME NEW b, At(b, 0, encode_frame(f)) PROVE Holds0(b, f)
  <2>1. b[0 + 1] = 0 /\ At(b, 0 + 1, t)
    BY <1>2, <1>3, <1>5, ConsAt
  <2>2. \A i \in 1..2 : b[1 + i] = t[i]
    BY <1>3, <2>1 DEF At
  <2> QED
    BY <1>3, <2>1, <2>2 DEF Holds0
<1> QED
  BY <1>4, <1>5

LEMMA Frame1At ==
    ASSUME NEW f \in Frame1
    PROVE  /\ encode_frame(f) \in Seq(Int)
           /\ \A b : At(b, 0, encode_frame(f)) => Holds1(b, f)
<1>1. f.tag = 1 /\ f.reservee_id \in Int /\ f.vec \in ShortVecs
  <2>1. f.tag = 1 /\ f.reservee_id \in NodeIds /\ f.vec \in ShortVecs
    BY DEF Frame1
  <2>2. NodeIds \subseteq Int
    BY TransitAssumption
  <2> QED
    BY <2>1, <2>2, Zenon
<1> DEFINE t == encode_vec(f.vec)
           u == Cons(f.reservee_id, t)
<1>2. encode_frame(f) = Cons(1, u)
  BY <1>1 DEF encode_frame, Cons
<1>3. t \in Seq(Int) /\ 1 \in Int
  BY <1>1, VecAt
<1> HIDE DEF t
<1>4. u \in Seq(Int)
  BY <1>1, <1>3, ConsAt
<1>5. encode_frame(f) \in Seq(Int)
  <2> HIDE DEF u
  <2> QED
    BY <1>2, <1>3, <1>4, ConsAt
<1>6. ASSUME NEW b, At(b, 0, encode_frame(f)) PROVE Holds1(b, f)
  <2>1. b[0 + 1] = 1 /\ At(b, 0 + 1, u)
    <3> HIDE DEF u
    <3> QED
      BY <1>2, <1>3, <1>4, <1>6, ConsAt
  <2>2. b[1 + 1] = f.reservee_id /\ At(b, 1 + 1, t)
    <3>1. At(b, 1, u) /\ 1 \in Nat
      BY <2>1
    <3> QED
      BY <1>1, <1>3, <3>1, ConsAt, Zenon
  <2> QED
    BY <2>1, <2>2 DEF Holds1, t
<1> QED
  BY <1>5, <1>6

LEMMA Frame2At ==
    ASSUME NEW f \in Frame2
    PROVE  /\ encode_frame(f) \in Seq(Int)
           /\ \A b : At(b, 0, encode_frame(f)) => Holds2(b, f)
<1>1. f.tag = 2 /\ f.reserve \in ReserveOutcome
  BY DEF Frame2
<1> DEFINE t == encode_outcome(f.reserve)
<1>2. encode_frame(f) = Cons(2, t)
  BY <1>1 DEF encode_frame, Cons
<1>3. t \in Seq(Int) /\ 2 \in Int
  BY <1>1, ReserveAt
<1> HIDE DEF t
<1>4. encode_frame(f) \in Seq(Int)
  BY <1>2, <1>3, ConsAt
<1>5. ASSUME NEW b, At(b, 0, encode_frame(f)) PROVE Holds2(b, f)
  <2>1. b[0 + 1] = 2 /\ At(b, 0 + 1, t)
    BY <1>2, <1>3, <1>5, ConsAt
  <2> QED
    BY <2>1 DEF Holds2, t
<1> QED
  BY <1>4, <1>5

LEMMA Frame3At ==
    ASSUME NEW f \in Frame3
    PROVE  /\ encode_frame(f) \in Seq(Int)
           /\ \A b : At(b, 0, encode_frame(f)) => Holds3(b, f)
<1>1. f.tag = 3 /\ f.target_id \in Int /\ f.voucher \in Option(Voucher)
  <2>1. f.tag = 3 /\ f.target_id \in NodeIds /\ f.voucher \in Option(Voucher)
    BY DEF Frame3
  <2>2. NodeIds \subseteq Int
    BY TransitAssumption
  <2> QED
    BY <2>1, <2>2, Zenon
<1> DEFINE t == encode_option(f.voucher, encode_voucher)
           u == Cons(f.target_id, t)
<1>2. encode_frame(f) = Cons(3, u)
  BY <1>1 DEF encode_frame, Cons
<1>3. t \in Seq(Int) /\ 3 \in Int
  BY <1>1, OptionAt
<1> HIDE DEF t
<1>4. u \in Seq(Int)
  BY <1>1, <1>3, ConsAt
<1>5. encode_frame(f) \in Seq(Int)
  <2> HIDE DEF u
  <2> QED
    BY <1>2, <1>3, <1>4, ConsAt
<1>6. ASSUME NEW b, At(b, 0, encode_frame(f)) PROVE Holds3(b, f)
  <2>1. b[0 + 1] = 3 /\ At(b, 0 + 1, u)
    <3> HIDE DEF u
    <3> QED
      BY <1>2, <1>3, <1>4, <1>6, ConsAt
  <2>2. b[1 + 1] = f.target_id /\ At(b, 1 + 1, t)
    <3>1. At(b, 1, u) /\ 1 \in Nat
      BY <2>1
    <3> QED
      BY <1>1, <1>3, <3>1, ConsAt, Zenon
  <2> QED
    BY <2>1, <2>2 DEF Holds3, t
<1> QED
  BY <1>5, <1>6

LEMMA Frame4At ==
    ASSUME NEW f \in Frame4
    PROVE  /\ encode_frame(f) \in Seq(Int)
           /\ \A b : At(b, 0, encode_frame(f)) => Holds4(b, f)
<1>1. f.tag = 4 /\ f.connect \in ConnectOutcome
  BY DEF Frame4
<1> DEFINE t == encode_outcome(f.connect)
<1>2. encode_frame(f) = Cons(4, t)
  BY <1>1 DEF encode_frame, Cons
<1>3. t \in Seq(Int) /\ 4 \in Int
  BY <1>1, ConnectAt
<1> HIDE DEF t
<1>4. encode_frame(f) \in Seq(Int)
  BY <1>2, <1>3, ConsAt
<1>5. ASSUME NEW b, At(b, 0, encode_frame(f)) PROVE Holds4(b, f)
  <2>1. b[0 + 1] = 4 /\ At(b, 0 + 1, t)
    BY <1>2, <1>3, <1>5, ConsAt
  <2> QED
    BY <2>1 DEF Holds4, t
<1> QED
  BY <1>4, <1>5

LEMMA Frame5At ==
    ASSUME NEW f \in Frame5
    PROVE  /\ encode_frame(f) \in Seq(Int)
           /\ \A b : At(b, 0, encode_frame(f)) => Holds5(b, f)
<1>1. f.tag = 5 /\ f.reason \in Option(ShortVecs)
  BY DEF Frame5
<1> DEFINE t == encode_option(f.reason, encode_vec)
<1>2. encode_frame(f) = Cons(5, t)
  BY <1>1 DEF encode_frame, Cons
<1>3. t \in Seq(Int) /\ 5 \in Int
  BY <1>1, OptionAt
<1> HIDE DEF t
<1>4. encode_frame(f) \in Seq(Int)
  BY <1>2, <1>3, ConsAt
<1>5. ASSUME NEW b, At(b, 0, encode_frame(f)) PROVE Holds5(b, f)
  <2>1. b[0 + 1] = 5 /\ At(b, 0 + 1, t)
    BY <1>2, <1>3, <1>5, ConsAt
  <2> QED
    BY <2>1 DEF Holds5, t
<1> QED
  BY <1>4, <1>5

LEMMA FrameAt ==
    /\ \A f \in TransitFrame : encode_frame(f) \in Seq(Int)
    /\ \A b : \A f, g \in TransitFrame :
          At(b, 0, encode_frame(f)) /\ At(b, 0, encode_frame(g)) => f = g
<1>1. ASSUME NEW f \in TransitFrame
      PROVE  \/ f \in Frame0 \/ f \in Frame1 \/ f \in Frame2
             \/ f \in Frame3 \/ f \in Frame4 \/ f \in Frame5
  BY Zenon DEF TransitFrame, Frame0, Frame1, Frame2, Frame3, Frame4, Frame5
<1>2. ASSUME NEW f \in TransitFrame PROVE encode_frame(f) \in Seq(Int)
  BY <1>1, Frame0At, Frame1At, Frame2At, Frame3At, Frame4At, Frame5At, Zenon
<1>3. ASSUME NEW b, NEW f \in TransitFrame, At(b, 0, encode_frame(f))
      PROVE  \/ (f \in Frame0 /\ Holds0(b, f)) \/ (f \in Frame1 /\ Holds1(b, f))
             \/ (f \in Frame2 /\ Holds2(b, f)) \/ (f \in Frame3 /\ Holds3(b, f))
             \/ (f \in Frame4 /\ Holds4(b, f)) \/ (f \in Frame5 /\ Holds5(b, f))
  BY <1>1, <1>3, Frame0At, Frame1At, Frame2At, Frame3At, Frame4At, Frame5At, Zenon
<1>4. ASSUME NEW b, NEW f \in Frame0, NEW g \in Frame0, Holds0(b, f), Holds0(b, g)
      PROVE  f = g
  <2>1. f.peer_id = g.peer_id /\ f.reserved_flags = g.reserved_flags
    BY <1>4, Zenon DEF Holds0
  <2> QED
    BY <2>1 DEF Frame0
<1>5. ASSUME NEW b, NEW f \in Frame1, NEW g \in Frame1, Holds1(b, f), Holds1(b, g)
      PROVE  f = g
  <2>1. f.vec \in ShortVecs /\ g.vec \in ShortVecs /\ 2 \in Nat
    BY DEF Frame1
  <2>2. f.vec = g.vec
    BY <1>5, <2>1, VecAt, Zenon DEF Holds1
  <2>3. f.reservee_id = g.reservee_id
    BY <1>5, Zenon DEF Holds1
  <2> QED
    BY <2>2, <2>3 DEF Frame1
<1>6. ASSUME NEW b, NEW f \in Frame2, NEW g \in Frame2, Holds2(b, f), Holds2(b, g)
      PROVE  f = g
  <2>1. f.reserve \in ReserveOutcome /\ g.reserve \in ReserveOutcome /\ 1 \in Nat
    BY DEF Frame2
  <2>2. f.reserve = g.reserve
    BY <1>6, <2>1, ReserveAt, Zenon DEF Holds2
  <2> QED
    BY <1>6, <2>2 DEF Frame2, Holds2
<1>7. ASSUME NEW b, NEW f \in Frame3, NEW g \in Frame3, Holds3(b, f), Holds3(b, g)
      PROVE  f = g
  <2>1. f.voucher \in Option(Voucher) /\ g.voucher \in Option(Voucher) /\ 2 \in Nat
    BY DEF Frame3
  <2>2. f.voucher = g.voucher
    BY <1>7, <2>1, OptionAt, Zenon DEF Holds3
  <2>3. f.target_id = g.target_id
    BY <1>7, Zenon DEF Holds3
  <2> QED
    BY <2>2, <2>3 DEF Frame3
<1>8. ASSUME NEW b, NEW f \in Frame4, NEW g \in Frame4, Holds4(b, f), Holds4(b, g)
      PROVE  f = g
  <2>1. f.connect \in ConnectOutcome /\ g.connect \in ConnectOutcome /\ 1 \in Nat
    BY DEF Frame4
  <2>2. f.connect = g.connect
    BY <1>8, <2>1, ConnectAt, Zenon DEF Holds4
  <2> QED
    BY <1>8, <2>2 DEF Frame4, Holds4
<1>9. ASSUME NEW b, NEW f \in Frame5, NEW g \in Frame5, Holds5(b, f), Holds5(b, g)
      PROVE  f = g
  <2>1. f.reason \in Option(ShortVecs) /\ g.reason \in Option(ShortVecs) /\ 1 \in Nat
    BY DEF Frame5
  <2>2. f.reason = g.reason
    BY <1>9, <2>1, OptionAt, Zenon DEF Holds5
  <2> QED
    BY <1>9, <2>2 DEF Frame5, Holds5
<1>10. ASSUME NEW b, NEW f \in TransitFrame, NEW g \in TransitFrame,
             At(b, 0, encode_frame(f)), At(b, 0, encode_frame(g))
      PROVE  f = g
  <2> DEFINE Is(h, k) == \/ k = 0 /\ h \in Frame0 /\ Holds0(b, h)
                         \/ k = 1 /\ h \in Frame1 /\ Holds1(b, h)
                         \/ k = 2 /\ h \in Frame2 /\ Holds2(b, h)
                         \/ k = 3 /\ h \in Frame3 /\ Holds3(b, h)
                         \/ k = 4 /\ h \in Frame4 /\ Holds4(b, h)
                         \/ k = 5 /\ h \in Frame5 /\ Holds5(b, h)
  <2>1. \A h, k : Is(h, k) => b[1] = k
    <3>1. \A h : /\ Holds0(b, h) => b[1] = 0
                 /\ Holds1(b, h) => b[1] = 1
                 /\ Holds2(b, h) => b[1] = 2
                 /\ Holds3(b, h) => b[1] = 3
                 /\ Holds4(b, h) => b[1] = 4
                 /\ Holds5(b, h) => b[1] = 5
      BY Zenon DEF Holds0, Holds1, Holds2, Holds3, Holds4, Holds5
    <3> QED
      BY <3>1
  <2>2. \A k : Is(f, k) /\ Is(g, k) => f = g
    BY <1>4, <1>5, <1>6, <1>7, <1>8, <1>9
  <2>3. (\E k : Is(f, k)) /\ (\E k : Is(g, k))
    BY <1>10, <1>3, Zenon
  <2> HIDE DEF Is
  <2> QED
    BY <2>1, <2>2, <2>3, Zenon
<1> QED
  BY <1>2, <1>10, Zenon

(* decode_frame takes a slice for a frame only if it is one, whole and     *)
(* with nothing behind it, and then for the frame that was written.        *)
THEOREM FramesWhole == Spec => []OneFrameExactly
<1>1. TransitInv => OneFrameExactly
  <2> SUFFICES ASSUME TransitInv, sent # <<>>
               PROVE  decode_frame(slice) = IF slice = encode_frame(sent[1]) THEN sent[1]
                                            ELSE MalformedFrame
    BY DEF OneFrameExactly
  <2>0. PICK f \in TransitFrame :
           \E n \in 0..(Len(encode_frame(f)) + 1), next \in {0, 1} :
              sent = <<f>> /\ CutOf(slice, f, n, next)
    BY DEF TransitInv, SliceInv
  <2>1. PICK n \in 0..(Len(encode_frame(f)) + 1), next \in {0, 1} :
           sent = <<f>> /\ CutOf(slice, f, n, next)
    BY <2>0
  <2> DEFINE e == encode_frame(f)
  <2>2. e \in Seq(Int) /\ sent[1] = f
    BY <2>1, FrameAt
  <2>3. slice = SubSeq(e \o <<next>>, 1, n)
    BY <2>1 DEF CutOf
  <2>4. Len(e) \in Nat /\ n \in 0..(Len(e) + 1) /\ next \in Int
    BY <2>2
  <2> HIDE DEF e
  <2>5. /\ slice \in Seq(Int) /\ Len(slice) = n
        /\ \A i \in 1..n : i <= Len(e) => slice[i] = e[i]
    <3> DEFINE w == e \o <<next>>
    <3>1. /\ w \in Seq(Int) /\ Len(w) = Len(e) + 1 /\ \A i \in 1..Len(e) : w[i] = e[i]
      BY <2>2, <2>4
    <3>2. slice = SubSeq(w, 1, n)
      BY <2>3
    <3> HIDE DEF w
    <3> QED
      BY <2>4, <3>1, <3>2
  <2>6. ASSUME NEW g \in take_from_bytes(slice)
        PROVE  g \in TransitFrame /\ Len(encode_frame(g)) <= n /\ g = f
    <3> DEFINE d == encode_frame(g)
    <3>1. g \in TransitFrame /\ d \in Seq(Int) /\ Len(d) \in Nat
      BY FrameAt DEF take_from_bytes
    <3>2. Len(d) <= n /\ \A i \in 1..Len(d) : slice[i] = d[i]
      BY <2>5 DEF take_from_bytes, IsPrefix
    <3> HIDE DEF d
    <3>3. CASE n <= Len(e)
      <4>1. ASSUME NEW i \in 1..Len(d) PROVE e[0 + i] = d[i]
        <5>1. i \in 1..n /\ i <= Len(e)
          BY <2>4, <3>1, <3>2, <3>3
        <5> QED
          BY <2>5, <3>2, <5>1
      <4>2. At(e, 0, d)
        BY <4>1 DEF At
      <4>3. At(e, 0, e)
        BY <2>4 DEF At
      <4> QED
        BY <3>1, <3>2, <4>2, <4>3, FrameAt, Zenon DEF d, e
    <3>4. CASE n = Len(e) + 1
      <4>1. At(slice, 0, d)
        BY <3>2 DEF At
      <4>2. At(slice, 0, e)
        BY <2>4, <2>5, <3>4 DEF At
      <4> QED
        BY <3>1, <3>2, <4>1, <4>2, FrameAt, Zenon DEF d, e
    <3> QED
      BY <2>4, <3>3, <3>4
  <2>7. CASE n < Len(e)
    <3>1. take_from_bytes(slice) = {}
      <4>1. ASSUME NEW g \in take_from_bytes(slice) PROVE FALSE
        BY <2>4, <2>6, <2>7 DEF e
      <4> QED
        BY <4>1, Zenon
    <3>2. slice # e
      BY <2>4, <2>5, <2>7
    <3> QED
      BY <2>2, <3>1, <3>2, Zenon DEF decode_frame, e
  <2>8. CASE n >= Len(e)
    <3>1. f \in take_from_bytes(slice)
      <4>1. Len(e) <= Len(slice) /\ \A i \in 1..Len(e) : e[i] = slice[i]
        BY <2>4, <2>5, <2>8
      <4> QED
        BY <4>1 DEF take_from_bytes, IsPrefix, e
    <3>2. take_from_bytes(slice) = {f}
      BY <2>6, <3>1, Zenon
    <3>3. decode_frame(slice) = IF Len(e) < Len(slice) THEN MalformedFrame ELSE f
      BY <3>2 DEF decode_frame, e
    <3>4. slice = e <=> ~(Len(e) < Len(slice))
      BY <2>2, <2>4, <2>5, <2>8
    <3> QED
      BY <2>2, <3>3, <3>4 DEF e
  <2> QED
    BY <2>4, <2>7, <2>8
<1> QED
  BY <1>1, TransitInvariant, PTL
=============================================================================
