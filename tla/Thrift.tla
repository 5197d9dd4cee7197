------------------------------- MODULE Thrift -------------------------------
(***************************************************************************)
(* The binary codec of the generated structs.  Every struct of the IDL has *)
(* the same three methods: FastRead loops over field headers and skips     *)
(* what it does not know, FastWriteNocopy writes the fields in its own     *)
(* order, BLength sizes the buffer.  A struct is described by the sequence *)
(* of its fields; the methods are operators over that description.         *)
(*                                                                         *)
(* A buffer is a sequence of tokens: field headers, list headers and       *)
(* scalars, each with the bytes it takes.  A Go value is a number for a    *)
(* scalar (for a string, its length), a sequence for a slice and a         *)
(* function on field ids for a struct; NIL is the nil pointer or slice.    *)
(***************************************************************************)
EXTENDS Integers, Sequences, SequencesExt

CONSTANT NIL    \* the nil pointer, the nil slice

I64    == [tt |-> "I64"]
I32    == [tt |-> "I32"]
I16    == [tt |-> "I16"]
BYTE   == [tt |-> "BYTE"]
BOOL   == [tt |-> "BOOL"]
STR    == [tt |-> "STRING"]
List(t)   == [tt |-> "LIST", of |-> t]
Struct(s) == [tt |-> "STRUCT", of |-> s]

\* A field of default requiredness, always written, and an optional one, a
\* pointer that is written when it is set.
F(id, t)   == [id |-> id, type |-> t, opt |-> FALSE]
Opt(id, t) == [id |-> id, type |-> t, opt |-> TRUE]

\* What the generated stubs wrap around a method's request and reply.
Args(s)   == <<F(1, Struct(s))>>
Result(s) == <<Opt(0, Struct(s))>>

Ids(s) == {s[i].id : i \in DOMAIN s}
Field(s, id) == CHOOSE f \in ToSet(s) : f.id = id

\* The zero value of a field and the struct its constructor returns.
Zero(f) == IF f.opt \/ f.type.tt \in {"LIST", "STRUCT"} THEN NIL ELSE 0
New(s)  == [id \in Ids(s) |-> Zero(Field(s, id))]

-----------------------------------------------------------------------------
(* thrift.Binary: the lengths of what it writes.                           *)

ScalarLength(tt, v) ==
    CASE tt = "I64"    -> 8
      [] tt = "I32"    -> 4
      [] tt = "I16"    -> 2
      [] tt \in {"BYTE", "BOOL"} -> 1
      [] tt = "STRING" -> 4 + v

FieldBeginLength == 3
FieldStopLength  == 1
ListBeginLength  == 5

FieldBegin(tt, id)  == [is |-> "field", tt |-> tt, n |-> id]
FieldStop           == FieldBegin("STOP", 0)
ListBegin(tt, size) == [is |-> "list", tt |-> tt, n |-> size]
Scalar(tt, v)       == [is |-> "scalar", tt |-> tt, n |-> v]

TokenLength(k) ==
    CASE k = FieldStop     -> FieldStopLength
      [] k.is = "field" /\ k # FieldStop -> FieldBeginLength
      [] k.is = "list"     -> ListBeginLength
      [] k.is = "scalar"   -> ScalarLength(k.tt, k.n)

\* The bytes a buffer takes.
Bytes(buf) == FoldSeq(LAMBDA k, n : n + TokenLength(k), 0, buf)

-----------------------------------------------------------------------------
(* FastWriteNocopy and BLength.                                            *)

RECURSIVE FastWrite(_, _), Write(_, _)

Elements(v) == IF v = NIL THEN <<>> ELSE v

\* fastWriteFieldN: header and value, nothing for an optional field not set.
WriteField(f, v) ==
    IF f.opt /\ v = NIL
    THEN <<>>
    ELSE <<FieldBegin(f.type.tt, f.id)>> \o Write(f.type, v)

Write(t, v) ==
    CASE t.tt = "STRUCT" -> FastWrite(t.of, v)
      [] t.tt = "LIST"   ->
           LET vs == Elements(v)
           IN  <<ListBegin(t.of.tt, Len(vs))>>
                 \o FlattenSeq([i \in DOMAIN vs |-> Write(t.of, vs[i])])
      [] OTHER           -> <<Scalar(t.tt, v)>>

\* A nil receiver writes no field, and the stop all the same.
FastWrite(s, p) ==
    IF p = NIL
    THEN <<FieldStop>>
    ELSE FlattenSeq([i \in DOMAIN s |-> WriteField(s[i], p[s[i].id])])
           \o <<FieldStop>>

RECURSIVE BLength(_, _), Length(_, _)

SumOf(seq) == FoldSeq(LAMBDA a, b : a + b, 0, seq)

\* fieldNLength.
FieldLength(f, v) ==
    IF f.opt /\ v = NIL THEN 0 ELSE FieldBeginLength + Length(f.type, v)

Length(t, v) ==
    CASE t.tt = "STRUCT" -> BLength(t.of, v)
      [] t.tt = "LIST"   ->
           LET vs == Elements(v)
           IN  ListBeginLength
                 + SumOf([i \in DOMAIN vs |-> Length(t.of, vs[i])])
      [] OTHER           -> ScalarLength(t.tt, v)

\* Mutant of BLength: a nil receiver sized as if it wrote nothing.
BLengthNil(s, p) ==
    IF p = NIL
    THEN 0
    ELSE FieldStopLength + SumOf([i \in DOMAIN s |-> FieldLength(s[i], p[s[i].id])])

BLength(s, p) ==
    FieldStopLength +
      (IF p = NIL
       THEN 0
       ELSE SumOf([i \in DOMAIN s |-> FieldLength(s[i], p[s[i].id])]))

-----------------------------------------------------------------------------
(* FastRead, from offset o of a buffer: the value, the offset behind it,   *)
(* and whether the bytes could be read.                                    *)

Read(v, o) == [ok |-> TRUE, val |-> v, off |-> o]
ReadError(o) == [ok |-> FALSE, val |-> NIL, off |-> o]

Has(buf, o, is) == o \in DOMAIN buf /\ buf[o].is = is

RECURSIVE SkipMany(_, _, _, _), SkipFields(_, _)

\* thrift.Binary.Skip of one value of type tt.
Skip(buf, o, tt) ==
    CASE tt = "STRUCT" -> SkipFields(buf, o)
      [] tt = "LIST"   -> IF Has(buf, o, "list")
                          THEN SkipMany(buf, o + 1, buf[o].tt, buf[o].n)
                          ELSE ReadError(o)
      [] OTHER         -> IF Has(buf, o, "scalar") THEN Read(NIL, o + 1)
                                                   ELSE ReadError(o)

SkipMany(buf, o, tt, n) ==
    LET r == Skip(buf, o, tt)
    IN  IF n = 0 THEN Read(NIL, o)
        ELSE IF ~r.ok THEN r ELSE SkipMany(buf, r.off, tt, n - 1)

SkipFields(buf, o) ==
    IF ~Has(buf, o, "field") THEN ReadError(o)
    ELSE IF buf[o] = FieldStop THEN Read(NIL, o + 1)
    ELSE LET r == Skip(buf, o + 1, buf[o].tt)
         IN  IF r.ok THEN SkipFields(buf, r.off) ELSE r

RECURSIVE ReadFields(_, _, _, _), ReadMany(_, _, _, _, _)

FastRead(buf, o, s) == ReadFields(buf, o, s, New(s))

(* FastReadFieldN.  The element type of a list header is not looked at:    *)
(* elements of another type are taken for what they are not, and decode to *)
(* an error or to anything; ReadError stands for both.                     *)
ReadValue(buf, o, t) ==
    CASE t.tt = "STRUCT" -> FastRead(buf, o, t.of)
      [] t.tt = "LIST"   -> IF Has(buf, o, "list")
                            THEN ReadMany(buf, o + 1, t.of, buf[o].n, <<>>)
                            ELSE ReadError(o)
      [] OTHER           -> IF Has(buf, o, "scalar") /\ buf[o].tt = t.tt
                            THEN Read(buf[o].n, o + 1) ELSE ReadError(o)

ReadMany(buf, o, t, n, vs) ==
    LET r == ReadValue(buf, o, t)
    IN  IF n = 0 THEN Read(vs, o)
        ELSE IF ~r.ok THEN r
        ELSE ReadMany(buf, r.off, t, n - 1, Append(vs, r.val))

\* Mutant of Known: the type in the header is not compared.
KnownById(s, k) == k.n \in Ids(s)

\* The header names a field of the struct, of the type the struct gives it.
Known(s, k) == \E f \in ToSet(s) : f.id = k.n /\ f.type.tt = k.tt

ReadFields(buf, o, s, p) ==
    IF ~Has(buf, o, "field") THEN ReadError(o)
    ELSE IF buf[o] = FieldStop THEN Read(p, o + 1)
    ELSE LET k == buf[o]
             r == IF Known(s, k) THEN ReadValue(buf, o + 1, Field(s, k.n).type)
                                 ELSE Skip(buf, o + 1, k.tt)
         IN  IF ~r.ok THEN r
             ELSE ReadFields(buf, r.off, s,
                             IF Known(s, k) THEN [p EXCEPT ![k.n] = r.val] ELSE p)
=============================================================================
