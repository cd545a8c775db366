------------------------------- MODULE Transit -------------------------------
(***************************************************************************)
(* transit.rs: the vouchers that a relay signs for a reservee, and the     *)
(* frames that carry them.  The repository has no relay yet, only what one *)
(* will be built from: sign, verify, is_expired, encode_frame and          *)
(* decode_frame.  Here relays sign, the same keys sign for other           *)
(* protocols, and frames reach the reader whole, cut short or with more    *)
(* behind them.                                                            *)
(*                                                                         *)
(* Ed25519 is external: a signature is its number in the list of all       *)
(* signatures made, and stands for the key and the bytes it was made with. *)
(* A byte, a node-id and a varint are a number each; postcard writes a     *)
(* value as the sequence of these, without names or types.                 *)
(***************************************************************************)
EXTENDS Integers, SequencesExt

CONSTANTS
    Relays,     \* node-ids whose secret key signs
    NodeIds,    \* all node-ids
    Expiries,   \* values of expire_unix_secs
    Base,       \* values of a byte
    Width,      \* bytes of an expiry: 8 of base 256 in the code
    MaxMade     \* bound: signatures made

(* What a byte counts for with n more behind it, in big-endian order.      *)
Place[n \in Nat] == IF n = 0 THEN 1 ELSE Base * Place[n - 1]

ASSUME TransitAssumption ==
    /\ Relays \subseteq NodeIds /\ NodeIds \subseteq Nat
    /\ Base \in Nat \ {0, 1} /\ Width \in Nat \ {0}
    /\ Expiries \subseteq 0..(Place[Width] - 1)
    /\ MaxMade \in Nat

VARIABLES
    made,    \* signatures: the key and the message of each
    issued,  \* what relays have promised: relay, peer, expiry
    sent,    \* frames written to a stream, one at most
    slice    \* what decode_frame is given of it

vars == <<made, issued, sent, slice>>

-----------------------------------------------------------------------------
(* Vouchers.                                                               *)

Voucher == [relay_node_id : NodeIds, peer_node_id : NodeIds,
            expire_unix_secs : Expiries, signature : 1..MaxMade]

VOUCHER_DOMAIN_TAG == <<-1>>

to_be_bytes(e) == [i \in 1..Width |-> (e \div Place[Width - i]) % Base]

(* Mutant: no domain tag.                                                  *)
compose_untagged(relay, peer, expire) == <<relay, peer>> \o to_be_bytes(expire)

compose_signing_bytes(relay, peer, expire) ==
    VOUCHER_DOMAIN_TAG \o <<relay, peer>> \o to_be_bytes(expire)

(* Voucher::sign, which a relay calls with its own key.                    *)
sign(relay, peer, expire) ==
    /\ Len(made) < MaxMade
    /\ made' = Append(made, [key |-> relay,
                             over |-> compose_signing_bytes(relay, peer, expire)])
    /\ issued' = issued \cup {<<relay, peer, expire>>}
    /\ UNCHANGED <<sent, slice>>

(* Another protocol signs with the key that also proves the handshake:     *)
(* the same data in the same order, without this module's tag.             *)
SignElsewhere(key, peer, number) ==
    /\ Len(made) < MaxMade
    /\ made' = Append(made, [key |-> key, over |-> <<key, peer>> \o to_be_bytes(number)])
    /\ UNCHANGED <<issued, sent, slice>>

(* Voucher::verify returns Ok.                                             *)
verify(v, key) ==
    /\ v.relay_node_id = key
    /\ v.signature \in DOMAIN made
    /\ made[v.signature] =
         [key |-> key,
          over |-> compose_signing_bytes(v.relay_node_id, v.peer_node_id, v.expire_unix_secs)]

is_expired(v, t) == t >= v.expire_unix_secs

-----------------------------------------------------------------------------
(* Frames.  A variant is written as its position in its enum.              *)

ReserveOutcome ==
    [tag : {0}, voucher : Voucher, max_circuit_bytes : {0, 1},
     max_circuit_duration_secs : {0, 1}]
      \cup [tag : {1}, error : 0..6]
ConnectOutcome == [tag : {0}] \cup [tag : {1}, error : 0..6]
Option(T) == {<<>>} \cup {<<x>> : x \in T}
ShortVecs == {<<>>, <<0>>, <<1, 0>>}

TransitFrame ==
    [tag : {0}, peer_id : NodeIds, reserved_flags : {0, 1}]
      \cup [tag : {1}, reservee_id : NodeIds, vec : ShortVecs]
      \cup [tag : {2}, reserve : ReserveOutcome]
      \cup [tag : {3}, target_id : NodeIds, voucher : Option(Voucher)]
      \cup [tag : {4}, connect : ConnectOutcome]
      \cup [tag : {5}, reason : Option(ShortVecs)]

encode_voucher(v) == <<v.relay_node_id, v.peer_node_id, v.expire_unix_secs, v.signature>>
encode_vec(s) == <<Len(s)>> \o s
encode_option(o, Encode(_)) == IF o = <<>> THEN <<0>> ELSE <<1>> \o Encode(o[1])
encode_outcome(o) ==
    IF o.tag = 1 THEN <<1, o.error>>
    ELSE <<0>> \o IF "voucher" \in DOMAIN o
                  THEN encode_voucher(o.voucher)
                         \o <<o.max_circuit_bytes, o.max_circuit_duration_secs>>
                  ELSE <<>>

encode_frame(f) ==
    <<f.tag>> \o CASE f.tag = 0 -> <<f.peer_id, f.reserved_flags>>
                   [] f.tag = 1 -> <<f.reservee_id>> \o encode_vec(f.vec)
                   [] f.tag = 2 -> encode_outcome(f.reserve)
                   [] f.tag = 3 -> <<f.target_id>> \o encode_option(f.voucher, encode_voucher)
                   [] f.tag = 4 -> encode_outcome(f.connect)
                   [] f.tag = 5 -> encode_option(f.reason, encode_vec)

MalformedFrame == [tag |-> 6]

(* postcard::take_from_bytes reads a value off the front of the bytes:     *)
(* the frame whose encoding they start with, if there is one.              *)
take_from_bytes(bytes) == {f \in TransitFrame : IsPrefix(encode_frame(f), bytes)}

(* Mutant: what is behind the frame is ignored.                            *)
decode_frame_lenient(bytes) ==
    LET frames == take_from_bytes(bytes)
    IN  IF frames = {} THEN MalformedFrame ELSE CHOOSE f \in frames : TRUE

decode_frame(bytes) ==
    LET frames == take_from_bytes(bytes)
        frame == CHOOSE f \in frames : TRUE
    IN  IF frames = {} THEN MalformedFrame
        ELSE IF Len(encode_frame(frame)) < Len(bytes) THEN MalformedFrame
        ELSE frame

-----------------------------------------------------------------------------
Vouchers(f) == IF f.tag = 2 THEN IF f.reserve.tag = 0 THEN {f.reserve.voucher} ELSE {}
               ELSE IF f.tag = 3 THEN ToSet(f.voucher) ELSE {}

(* A frame is written, and a slice of n bytes is cut off the stream: the   *)
(* frame, a part of it, or it and the first byte of what follows.  Relays  *)
(* grant, and dialers pass on, vouchers that verify.                       *)
Transfer(f, n, next) ==
    /\ sent = <<>>
    /\ \A v \in Vouchers(f) : verify(v, v.relay_node_id)
    /\ sent' = <<f>>
    /\ slice' = SubSeq(encode_frame(f) \o <<next>>, 1, n)
    /\ UNCHANGED <<made, issued>>

Init == made = <<>> /\ issued = {} /\ sent = <<>> /\ slice = <<>>

Next ==
    \/ \E relay \in Relays, peer \in NodeIds, number \in Expiries :
          sign(relay, peer, number) \/ SignElsewhere(relay, peer, number)
    \/ \E f \in TransitFrame : \E n \in 0..(Len(encode_frame(f)) + 1), next \in {0, 1} :
          Transfer(f, n, next)

Spec == Init /\ [][Next]_vars

-----------------------------------------------------------------------------
(* A voucher that a dialer or the relay itself accepts - it verifies       *)
(* against the relay's key and has not expired - is one that this relay    *)
(* issued, for this peer and until this moment: no voucher put together    *)
(* from other fields and any signature its key has ever made passes.       *)
AcceptedWasIssued ==
    \A v \in Voucher, key \in Relays, now \in 0..Place[Width] :
        verify(v, key) /\ ~is_expired(v, now) =>
            <<key, v.peer_node_id, v.expire_unix_secs>> \in issued /\ now < v.expire_unix_secs

(* decode_frame gives back the frame that was written if its slice is      *)
(* exactly that frame, and refuses every shorter and every longer slice:   *)
(* no part of a frame, and no frame with more behind it, passes for one.   *)
OneFrameExactly ==
    sent # <<>> =>
        decode_frame(slice) = IF slice = encode_frame(sent[1]) THEN sent[1]
                              ELSE MalformedFrame
=============================================================================
