--------------------------- MODULE MethodRegistry ---------------------------
(***************************************************************************)
(* method.rs: the registry of handlers, keyed by canonical names           *)
(* package@version/interface/method; and the way of a name from a unary    *)
(* caller to a handler: encode_method_name and decode_method_name of       *)
(* wire.rs, build_unary_request_frame and dispatch_unary of server.rs.     *)
(*                                                                         *)
(* Keys are found, matched and compared as text, so a name is a sequence   *)
(* of characters, and these are bytes: numbers in the order of ASCII,      *)
(* '.' < '/' < digits < '@' < letters.                                     *)
(***************************************************************************)
EXTENDS Leb128

CONSTANTS
    Packages, Interfaces, Methods, \* non-empty sequences of letters
    Versions,    \* semver triples, components below 100
    Registrable, \* names that the application tries to register, in any order
    Payloads,    \* request bytes
    MAX_METHOD_NAME_LEN

Dot == 0
Slash == 1
Digit(d) == 2 + d
At == 12
Letters == 13..(2 * High - 1)

ASSUME RegistryAssumption ==
    /\ GroupBits \in Nat \ {0} /\ MAX_METHOD_NAME_LEN \in Nat
    /\ \A s \in Packages \cup Interfaces \cup Methods : s \in Seq(Letters) /\ s # <<>>
    /\ Versions \subseteq (0..99) \X (0..99) \X (0..99)
    /\ Payloads \subseteq Seq(Byte)

VARIABLES handlers, \* what is registered under a key: none, unary, streaming
          shared    \* the registry is behind an Arc, and served

registryVars == <<handlers, shared>>

-----------------------------------------------------------------------------
(* MethodName.  No version is the empty one, which parse refuses in a      *)
(* name; NoName is None.                                                   *)

NoName == [package |-> <<>>, version |-> <<>>, interface |-> <<>>, method |-> <<>>]

(* splitn(3, '/'): the method is everything behind the second slash.       *)
parse(s) ==
    LET first == SelectInSeq(s, LAMBDA c : c = Slash)
        tail == SubSeq(s, first + 1, Len(s))
        second == SelectInSeq(tail, LAMBDA c : c = Slash)
        pkg_part == SubSeq(s, 1, first - 1)
        interface == SubSeq(tail, 1, second - 1)
        method == SubSeq(tail, second + 1, Len(tail))
        at == SelectInSeq(pkg_part, LAMBDA c : c = At)
    IN  IF \/ first = 0 \/ second = 0 \/ <<>> \in {pkg_part, interface, method}
           \/ at # 0 /\ at \in {1, Len(pkg_part)}
        THEN NoName
        ELSE [package   |-> IF at = 0 THEN pkg_part ELSE SubSeq(pkg_part, 1, at - 1),
              version   |-> IF at = 0 THEN <<>> ELSE SubSeq(pkg_part, at + 1, Len(pkg_part)),
              interface |-> interface, method |-> method]

Digits(n) == IF n < 10 THEN <<Digit(n)>> ELSE <<Digit(n \div 10), Digit(n % 10)>>
VersionText(v) == Digits(v[1]) \o <<Dot>> \o Digits(v[2]) \o <<Dot>> \o Digits(v[3])

to_canonical(n) ==
    n.package \o (IF n.version = <<>> THEN <<>> ELSE <<At>> \o n.version)
      \o <<Slash>> \o n.interface \o <<Slash>> \o n.method

MethodNames == [package : Packages, interface : Interfaces, method : Methods,
                version : {<<>>} \cup {VersionText(v) : v \in Versions}]

(* The names that callers ask for.                                         *)
Texts == {to_canonical(n) : n \in MethodNames}
Unpinned == {to_canonical(n) : n \in {m \in MethodNames : m.version = <<>>}}

-----------------------------------------------------------------------------
(* MethodRegistry.                                                         *)

(* Mutant: any name that parses.                                           *)
validate_canonical_unpinned(s) == parse(s) # NoName

validate_canonical(s) == parse(s) # NoName /\ parse(s).version # <<>>

(* register and register_streaming, which need &mut self; the last one     *)
(* wins.  A name that does not validate panics.                            *)
register(s, kind) ==
    /\ ~shared /\ validate_canonical(s)
    /\ handlers' = [handlers EXCEPT ![s] = kind]
    /\ UNCHANGED shared

(* The registry goes to RpcServer::new.                                    *)
Share == ~shared /\ shared' = TRUE /\ UNCHANGED handlers

Registered == {k \in Registrable : handlers[k] # "none"}
NoKey == <<>>

TextLess(s, t) ==
    \E i \in 1..Len(t) : /\ \A j \in 1..(i - 1) : j <= Len(s) /\ s[j] = t[j]
                         /\ i > Len(s) \/ s[i] < t[i]
MaxText(S) == CHOOSE k \in S : \A l \in S : l = k \/ TextLess(l, k)

(* Mutant: starts_with without the '@'.                                    *)
Candidates_any_package(n) ==
    {k \in Registered : /\ IsPrefix(n.package, k)
                        /\ IsSuffix(<<Slash>> \o n.interface \o <<Slash>> \o n.method, k)}

(* The keys that answer for a name without a version.                      *)
Candidates(n) ==
    {k \in Registered : /\ IsPrefix(n.package \o <<At>>, k)
                        /\ IsSuffix(<<Slash>> \o n.interface \o <<Slash>> \o n.method, k)}

lookup_entry(s) ==
    IF s \in Registered THEN s
    ELSE IF parse(s) = NoName \/ parse(s).version # <<>> \/ Candidates(parse(s)) = {}
         THEN NoKey
         ELSE MaxText(Candidates(parse(s)))

(* lookup and lookup_streaming.                                            *)
lookup(s, kind) ==
    LET k == lookup_entry(s) IN IF k # NoKey /\ handlers[k] = kind THEN k ELSE NoKey

-----------------------------------------------------------------------------
(* The name on the wire.                                                   *)

encode_method_name(s) == leb128_write[Len(s)] \o s

Malformed == [ok |-> FALSE, name |-> <<>>, rest |-> <<>>]

(* Mutant: as much of the name as there is.                                *)
decode_method_name_clamped(input) ==
    LET consumed == leb128_len(input)
        len == leb128_read(input)
        name_end == IF consumed + len > Len(input) THEN Len(input) ELSE consumed + len
    IN  IF consumed = 0 \/ len > MAX_METHOD_NAME_LEN THEN Malformed
        ELSE [ok |-> TRUE, name |-> SubSeq(input, consumed + 1, name_end),
              rest |-> SubSeq(input, name_end + 1, Len(input))]

decode_method_name(input) ==
    LET consumed == leb128_len(input)
        len == leb128_read(input)
    IN  IF consumed = 0 \/ len > MAX_METHOD_NAME_LEN \/ consumed + len > Len(input)
        THEN Malformed
        ELSE [ok |-> TRUE, name |-> SubSeq(input, consumed + 1, consumed + len),
              rest |-> SubSeq(input, consumed + len + 1, Len(input))]

OPCODE_UNARY_REQUEST == 0

build_unary_request_frame(s, request) ==
    <<OPCODE_UNARY_REQUEST>> \o encode_method_name(s) \o request

Answer(what, key, payload) == [what |-> what, key |-> key, payload |-> payload]

(* Which handler gets what, or which error is written back.                *)
dispatch_unary(buf) ==
    LET d == decode_method_name(Tail(buf))
        k == lookup(d.name, "unary")
    IN  IF buf[1] # OPCODE_UNARY_REQUEST \/ ~d.ok THEN Answer("MalformedFrame", NoKey, <<>>)
        ELSE IF k = NoKey THEN Answer("UnknownMethod", NoKey, <<>>)
        ELSE Answer("handle", k, d.rest)

(* A substream that ends before its opcode is dropped without an answer.   *)
handle_inbound_substream(buf) ==
    IF buf = <<>> THEN Answer("none", NoKey, <<>>) ELSE dispatch_unary(buf)

-----------------------------------------------------------------------------
RegistryInit == handlers = [k \in Registrable |-> "none"] /\ shared = FALSE

RegistryNext == Share \/ \E s \in Registrable, kind \in {"unary", "streaming"} : register(s, kind)

RegistrySpec == RegistryInit /\ [][RegistryNext]_registryVars

-----------------------------------------------------------------------------
(* What the application registers, if it validates, is made of the         *)
(* packages, versions, interfaces and methods there are; the versions that *)
(* the doc of the registry speaks of are of single-digit components.       *)
NamesOnly == \A s \in Registrable : validate_canonical(s) => s \in Texts
SingleDigits == Versions \subseteq (0..9) \X (0..9) \X (0..9)

(* The values the variables range over: nothing is registered under a name *)
(* without a version, nor under one that does not parse.                   *)
RegistryTypeOK ==
    /\ handlers \in [Registrable -> {"none", "unary", "streaming"}]
    /\ Registered \subseteq Texts \ Unpinned
    /\ shared \in BOOLEAN

SemverLess(v, w) ==
    \E i \in 1..3 : v[i] < w[i] /\ \A j \in 1..(i - 1) : v[j] = w[j]

KeyOf(n, v) == to_canonical([n EXCEPT !.version = VersionText(v)])

(* A version-omitted lookup finds the latest semver that is registered     *)
(* under the same package, interface and method, and only if that one is   *)
(* of the kind asked for: an older handler of the right kind is hidden.    *)
(* This is what the doc of MethodRegistry promises for versions of         *)
(* single-digit components; it also needs methods without a slash, for a   *)
(* key is matched by the end of its text.                                  *)
ResolvesLatest ==
    \A n \in {m \in MethodNames : m.version = <<>>}, kind \in {"unary", "streaming"} :
        LET versions == {v \in Versions : KeyOf(n, v) \in Registered}
            latest == {v \in versions : \A w \in versions : ~SemverLess(v, w)}
            found == {k \in {KeyOf(n, v) : v \in latest} : handlers[k] = kind}
        IN  lookup(to_canonical(n), kind) \in IF found = {} THEN {NoKey} ELSE found

(* A unary request runs the method that its caller named or none, wherever *)
(* the stream was cut off: as long as the name is not there in full the    *)
(* answer is MalformedFrame - never a method whose name is a part of it -, *)
(* and once it is, the method that the registry resolves it to is given    *)
(* what there is of the payload.  A name above the limit is refused by the *)
(* reader, after the writer has sent it.                                   *)
DispatchedAsNamed ==
    shared => \A s \in Texts, request \in Payloads :
        LET frame == build_unary_request_frame(s, request)
            named == Len(frame) - Len(request)
        IN  \A n \in 1..Len(frame) :
              handle_inbound_substream(SubSeq(frame, 1, n)) =
                IF n < named \/ Len(s) > MAX_METHOD_NAME_LEN
                THEN Answer("MalformedFrame", NoKey, <<>>)
                ELSE IF lookup(s, "unary") = NoKey THEN Answer("UnknownMethod", NoKey, <<>>)
                ELSE Answer("handle", lookup(s, "unary"), SubSeq(request, 1, n - named))
=============================================================================
