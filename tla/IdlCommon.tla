----------------------------- MODULE IdlCommon -----------------------------
(***************************************************************************)
(* The messages of the types every service shares, one definition per      *)
(* generated struct: its fields in the order FastWriteNocopy writes them.  *)
(***************************************************************************)
EXTENDS Thrift

User == <<F(1, I64), F(4, BYTE), F(2, STR), F(3, STR)>>
Lesson == <<F(1, I64), F(6, I64), F(2, STR), F(3, STR), F(4, STR),
    F(5, List(I64))>>
QuizStat == <<F(2, I64), F(1, STR)>>
Quiz == <<F(1, I64), F(2, I64), F(4, BYTE), F(7, I64), F(3, STR), F(5, STR),
    F(6, STR), F(8, List(Struct(QuizStat)))>>
Chat == <<F(1, STR)>>
Data == <<Opt(1, Struct(User)), Opt(2, Struct(Lesson)), Opt(3, Struct(Quiz)),
    Opt(4, Struct(Chat)), Opt(10, STR), Opt(11, STR), Opt(12, List(I64)),
    Opt(13, STR)>>
Resp == <<F(1, I16), F(2, STR), Opt(3, Struct(Data))>>
=============================================================================
