------------------------------ MODULE RpcCall ------------------------------
(***************************************************************************)
(* One call through the generated stubs: kClient wraps the request in the  *)
(* method's Args and encodes it, the server decodes it with its own build  *)
(* of the IDL, the method's handler function calls the service and wraps   *)
(* the reply in the Result, which the client decodes with its build.       *)
(*                                                                         *)
(* The two builds may come from neighbouring revisions of the IDL (the     *)
(* services are deployed one by one): a struct of the other build may lack *)
(* a field of this one, or give it another type, in a nested struct too.   *)
(***************************************************************************)
EXTENDS Thrift

CONSTANT Methods    \* pairs of an Args and a Result description

VARIABLES
    method,     \* the method called, as the writer of each message knows it
    phase,      \* how far the call is
    sent,       \* the request or reply the writer passed to its stub
    reader,     \* the description the reader of the message was built with
    buf,        \* the encoded message
    room,       \* the bytes the writer asked for, BLength
    got         \* what the reader decoded

vars == <<method, phase, sent, reader, buf, room, got>>

-----------------------------------------------------------------------------
(* Values and revisions of a struct.                                       *)

RECURSIVE Full(_), Samples(_)

FullOf(t) == CASE t.tt = "STRUCT" -> Full(t.of)
               [] t.tt = "LIST"   -> <<IF t.of.tt = "STRUCT" THEN Full(t.of.of)
                                                             ELSE 1>>
               [] OTHER           -> 1
Full(s) == [id \in Ids(s) |-> FullOf(Field(s, id).type)]

SamplesOf(t) ==
    CASE t.tt = "STRUCT" -> Samples(t.of)
      [] t.tt = "LIST"   -> {NIL, <<>>, FullOf(t)}
                              \cup (IF t.of.tt = "STRUCT" THEN {<<NIL, NIL>>} ELSE {<<1, 0>>})
      [] OTHER           -> {0, 1}

\* Nil, empty, full, and all that differ from the empty one in one field.
Samples(s) ==
    {NIL, New(s), Full(s)}
      \cup UNION {{[New(s) EXCEPT ![id] = v] : v \in SamplesOf(Field(s, id).type)} :
                     id \in Ids(s)}

\* The samples, and every choice of fields that are set.
Values(s) ==
    Samples(s)
      \cup {[id \in Ids(s) |-> IF id \in X THEN Full(s)[id] ELSE New(s)[id]] :
               X \in SUBSET Ids(s)}

\* Another type, as a changed IDL could give it to a field or to the elements
\* of a list.
Retyped(t) == IF t.tt = "I64" THEN STR ELSE I64

RECURSIVE Revisions(_)

\* The types a field may have in the reader's revision of the IDL: another
\* one, a revision of its struct, a list of another type or of another revision.
TypeRevisions(t) ==
    {Retyped(t)}
      \cup CASE t.tt = "STRUCT" -> {Struct(s) : s \in Revisions(t.of) \ {t.of}}
             [] t.tt = "LIST" /\ t.of.tt = "STRUCT" ->
                  {List(Struct(s)) : s \in Revisions(t.of.of) \ {t.of.of}}
                    \cup {List(Retyped(t.of))}
             [] t.tt = "LIST" /\ t.of.tt # "STRUCT" -> {List(Retyped(t.of))}
             [] OTHER -> {}

\* The struct in the reader's revision: the same, without one of the fields,
\* or with another type for one of them, at any depth.
Revisions(s) ==
    {s} \cup {RemoveAt(s, i) : i \in DOMAIN s}
        \cup UNION {{[s EXCEPT ![i].type = t] : t \in TypeRevisions(s[i].type)} :
                       i \in DOMAIN s}

\* The struct a stub's wrapper holds.
Inner(w) == w[1].type.of
Wrapped(w, v) == [id \in Ids(w) |-> v]
Wrapper(w, s) == <<[w[1] EXCEPT !.type = Struct(s)]>>

-----------------------------------------------------------------------------
Init ==
    /\ method \in Methods
    /\ phase = "idle"
    /\ sent = NIL /\ reader = <<>> /\ buf = <<>> /\ room = 0 /\ got = NIL

Encode(w, v) ==
    /\ sent' = v
    /\ buf' = FastWrite(w, Wrapped(w, v))
    /\ room' = BLength(w, Wrapped(w, v))

\* kClient.<Method>: _args.Req = req, Call.
Call ==
    /\ phase = "idle"
    /\ \E req \in Values(Inner(method[1])) : Encode(method[1], req)
    /\ phase' = "request"
    /\ \E s \in Revisions(Inner(method[1])) : reader' = Wrapper(method[1], s)
    /\ UNCHANGED <<method, got>>

\* The server reads the Args.
Receive ==
    /\ phase = "request"
    /\ got' = FastRead(buf, 1, reader)
    /\ phase' = "received"
    /\ UNCHANGED <<method, sent, reader, buf, room>>

NoMessage == sent' = NIL /\ reader' = <<>> /\ buf' = <<>> /\ room' = 0 /\ got' = NIL

\* <method>Handler hands Req to the service.
Handle ==
    /\ phase = "received"
    /\ phase' = "handling"
    /\ NoMessage
    /\ UNCHANGED method

\* <method>Handler: realResult.Success = success, encoded.
Reply ==
    /\ phase = "handling"
    /\ \E success \in Values(Inner(method[2])) : Encode(method[2], success)
    /\ phase' = "reply"
    /\ \E s \in Revisions(Inner(method[2])) : reader' = Wrapper(method[2], s)
    /\ UNCHANGED <<method, got>>

\* Or the service returned an error: the client's stub returns it.
HandlerError ==
    /\ phase = "handling"
    /\ phase' = "failed"
    /\ UNCHANGED <<method, sent, reader, buf, room, got>>

\* The client reads the Result; the stub returns GetSuccess().
Return ==
    /\ phase = "reply"
    /\ got' = FastRead(buf, 1, reader)
    /\ phase' = "returned"
    /\ UNCHANGED <<method, sent, reader, buf, room>>

Next == Call \/ Receive \/ Handle \/ Reply \/ HandlerError \/ Return

Spec == Init /\ [][Next]_vars

-----------------------------------------------------------------------------
(* What a decoded value should be, without the wire.                       *)

RECURSIVE Arrived(_, _, _)

ArrivedValue(f, g, v) ==
    CASE g.opt /\ v = NIL       -> NIL
      [] f.type.tt = "STRUCT" /\ ~(g.opt /\ v = NIL) -> Arrived(f.type.of, g.type.of, v)
      [] f.type.tt = "LIST" /\ ~(g.opt /\ v = NIL) ->
           IF f.type.of.tt # "STRUCT" THEN Elements(v)
           ELSE [i \in DOMAIN Elements(v) |->
                   Arrived(f.type.of.of, g.type.of.of, v[i])]
      [] OTHER                  -> v

\* Value v of the writer's struct w in the reader's struct s: a nil struct
\* arrives empty; a field both know arrives with its value, a nil slice as an
\* empty one and an optional field not set as nil; other fields stay zero.
Arrived(s, w, v) ==
    [id \in Ids(s) |->
        IF v # NIL /\ id \in Ids(w) /\ Field(w, id).type.tt = Field(s, id).type.tt
        THEN ArrivedValue(Field(s, id), Field(w, id), v[id])
        ELSE Zero(Field(s, id))]

Sender == IF phase \in {"request", "received"} THEN method[1] ELSE method[2]

(***************************************************************************)
(* The writer fills exactly the bytes BLength reserved: FastWriteNocopy    *)
(* writes into a buffer of that size (fields not set, nil structs and nil  *)
(* slices included).                                                       *)
(***************************************************************************)
BufferExact == Bytes(buf) = room

RECURSIVE Mistyped(_, _, _)

(* Value v holds, somewhere the reader looks, a list that is not empty and *)
(* whose elements have another type in the reader's revision.  The reader  *)
(* of a list drops the element type of its header, so it takes the bytes   *)
(* of those elements for its own type: nothing is promised of the message. *)
Mistyped(s, w, v) ==
    /\ v # NIL
    /\ \E id \in Ids(s) \cap Ids(w) :
         LET t == Field(s, id).type
             u == Field(w, id).type
         IN  /\ t.tt = u.tt /\ v[id] # NIL
             /\ \/ t.tt = "STRUCT" /\ Mistyped(t.of, u.of, v[id])
                \/ /\ t.tt = "LIST" /\ v[id] # <<>>
                   /\ \/ t.of.tt # u.of.tt
                      \/ /\ t.of.tt = "STRUCT"
                         /\ \E i \in DOMAIN v[id] : Mistyped(t.of.of, u.of.of, v[id][i])

(***************************************************************************)
(* Whatever revision of the IDL the reader was built with, at the top or   *)
(* in a nested struct, it reads the whole message and nothing more, and    *)
(* every field both revisions know arrives: FastRead skips unknown and     *)
(* retyped fields with all they hold.  In particular a nil Resp arrives as *)
(* an empty one, code 0, and a reply that was not set arrives as nil.      *)
(* Excepted is a message with a list whose element type was changed, see   *)
(* Mistyped: FastRead compares types of fields, not of elements.           *)
(***************************************************************************)
ValuesArrive ==
    phase \in {"received", "returned"}
        /\ ~Mistyped(reader, Sender, Wrapped(Sender, sent)) =>
        /\ got.ok
        /\ got.off = Len(buf) + 1
        /\ got.val = Arrived(reader, Sender, Wrapped(Sender, sent))
=============================================================================
