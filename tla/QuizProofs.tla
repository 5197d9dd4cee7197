----------------------------- MODULE QuizProofs -----------------------------
(***************************************************************************)
(* Proofs about the lessons and the quiz, for any number of students and   *)
(* of concurrent calls.                                                    *)
(***************************************************************************)
EXTENDS Quiz, FiniteSetTheorems, TLAPS

CallRecord ==
    [op : LessonOps \cup QuizOps \cup {"none"}, user : Users,
     pc : LivePcs \cup QuizPcs \cup
            {"idle", "done", "getquestion", "waitquestion", "delcache"}]

\* Only these operations reach the statements about answers and permissions.
StudentCalls ==
    \A c \in Calls :
        call[c].pc \in {"setperm", "close", "answered", "insert", "count", "publish"}
          => call[c].op \in StudentOps

AnswersFinite == IsFiniteSet(answers)

\* Unless a total was dropped, one that counts all answers was published, or
\* the call that will publish such a total is under way.
ToldOrUnderway ==
    dropped \/ told >= Cardinality(answers)
            \/ \E c \in Calls : \/ At(c, "count")
                                \/ At(c, "publish") /\ counted[c] >= Cardinality(answers)

Inv == TypeOK /\ StudentCalls /\ OneAnswer /\ AnswersFinite /\ ToldOrUnderway

-----------------------------------------------------------------------------
(* Steps that only move calls.                                             *)

\* The next value of call is a table of calls again, and no call is moved to or
\* from the statements after the insert.
CallsMove ==
    /\ call' \in [Calls -> CallRecord]
    /\ StudentCalls'
    /\ \A c \in Calls : call[c].pc \in {"count", "publish"} => call'[c] = call[c]

\* The records of Idle and Done are calls.
LEMMA DoneIsCall == Idle \in CallRecord /\ Done \in CallRecord
                    /\ Idle.pc = "idle" /\ Done.pc = "done"
                    /\ \A c : Ended(c) \in {Idle, Done}
BY DEF Ended, Idle, Done, CallRecord, Users, LessonOps, QuizOps, LivePcs, QuizPcs

\* A call that is not behind its insert ends.
LEMMA EndMoves ==
    ASSUME NEW c \in Calls, call \in [Calls -> CallRecord], StudentCalls, End(c),
           call[c].pc \notin {"count", "publish"}
    PROVE  CallsMove
BY DoneIsCall DEF End, CallsMove, StudentCalls, CallRecord, StudentOps

\* A call that is not behind its insert goes on to a place that is not either.
LEMMA GotoMoves ==
    ASSUME NEW c \in Calls, call \in [Calls -> CallRecord], StudentCalls, NEW pc, Goto(c, pc),
           call[c].pc \notin {"count", "publish"},
           pc \in LivePcs \cup QuizPcs \cup {"getquestion", "waitquestion", "delcache"},
           pc \in {"setperm", "close", "answered", "insert", "count", "publish"}
             => call[c].op \in StudentOps
    PROVE  CallsMove
<1>1. call' = [call EXCEPT ![c] = [call[c] EXCEPT !.pc = pc]]
  BY DEF Goto
<1>2. [call[c] EXCEPT !.pc = pc] \in CallRecord
  BY DEF CallRecord
<1>3. QED
  BY <1>1, <1>2 DEF CallsMove, StudentCalls, CallRecord, StudentOps

\* A new call starts in front of all statements about answers.
LEMMA RequestMoves ==
    ASSUME NEW c \in Calls, call \in [Calls -> CallRecord], StudentCalls,
           NEW op \in LessonOps \cup QuizOps, NEW u \in Users,
           NEW pc \in {"create", "bloom", "teacher", "perm", "getquestion"},
           Request(c, op, u, pc)
    PROVE  CallsMove
<1>1. [op |-> op, pc |-> pc, user |-> u] \in CallRecord
  BY DEF CallRecord, LivePcs, QuizPcs
<1>2. QED
  BY <1>1 DEF Request, At, CallsMove, StudentCalls, CallRecord, StudentOps

\* The calls that wait for a flight get its result.
LEMMA LandMoves ==
    ASSUME call \in [Calls -> CallRecord], StudentCalls, NEW k \in Keys, NEW result,
           Land(k, result)
    PROVE  CallsMove
<1>1. \A c \in Calls : [call[c] EXCEPT !.pc = HasPc[k]] \in CallRecord
  BY DEF CallRecord, HasPc, Keys, LivePcs, QuizPcs
<1>2. QED
  BY <1>1, DoneIsCall DEF Land, At, CallsMove, StudentCalls, CallRecord, StudentOps,
     WaitPc, HasPc, Keys

CacheType ==
    /\ cached \in [Keys -> BOOLEAN]
    /\ flight \in [Keys -> {"none", "select", "found", "missing"}]

\* A step of the cache of one row keeps the types of cache and flights.
LEMMA CacheMoves ==
    ASSUME call \in [Calls -> CallRecord], StudentCalls, CacheType, NEW k \in Keys,
           NEW exists \in BOOLEAN,
           \/ \E c \in Calls : CacheGet(c, k)
           \/ SelectRow(k, exists) \/ SetCache(k) \/ FlightFails(k) \/ Expire(k)
    PROVE  CallsMove /\ CacheType'
<1>1. CASE \E c \in Calls : CacheGet(c, k)
  <2> PICK c \in Calls : CacheGet(c, k)
    BY <1>1
  <2>1. call[c].pc \notin {"count", "publish"}
    BY DEF CacheGet, At, GetPc, Keys
  <2>2. HasPc[k] \in {"haslesson", "hasquestion"} /\ WaitPc[k] \in {"waitlesson", "waitquestion"}
    BY DEF HasPc, WaitPc, Keys
  <2>3. CallsMove
    <3>1. CASE End(c)
      BY <3>1, <2>1, EndMoves
    <3>2. CASE Goto(c, HasPc[k])
      <4>1. HasPc[k] \in LivePcs \cup QuizPcs
        BY <2>2 DEF LivePcs, QuizPcs
      <4>2. QED
        BY <3>2, <4>1, <2>1, <2>2, GotoMoves
    <3>3. CASE Goto(c, WaitPc[k])
      <4>1. WaitPc[k] \in LivePcs \cup {"getquestion", "waitquestion", "delcache"}
        BY <2>2 DEF LivePcs
      <4>2. QED
        BY <3>3, <4>1, <2>1, <2>2, GotoMoves
    <3>4. QED
      BY <3>1, <3>2, <3>3 DEF CacheGet
  <2>4. CacheType'
    BY DEF CacheGet, CacheType
  <2>5. QED
    BY <2>3, <2>4
<1>2. CASE SelectRow(k, exists)
  BY <1>2 DEF SelectRow, CacheType, CallsMove, StudentCalls
<1>3. CASE SetCache(k)
  <2>1. CallsMove
    BY <1>3, LandMoves DEF SetCache
  <2>2. PICK set \in BOOLEAN : cached' = [cached EXCEPT ![k] = @ \/ set]
    BY <1>3 DEF SetCache
  <2>3. cached' \in [Keys -> BOOLEAN]
    BY <2>2, Zenon DEF CacheType
  <2>4. QED
    BY <1>3, <2>1, <2>3 DEF SetCache, Land, CacheType
<1>4. CASE FlightFails(k)
  <2>1. CallsMove
    BY <1>4, LandMoves DEF FlightFails
  <2>2. QED
    BY <1>4, <2>1 DEF FlightFails, Land, CacheType
<1>5. CASE Expire(k)
  BY <1>5 DEF Expire, CacheType, CallsMove, StudentCalls
<1>6. QED
  BY <1>1, <1>2, <1>3, <1>4, <1>5

\* Deleting a cached row as the last statement of a handler.
LEMMA DelCacheMoves ==
    ASSUME call \in [Calls -> CallRecord], StudentCalls, CacheType, NEW k \in Keys,
           NEW c \in Calls, DelCache(c, k), call[c].pc \notin {"count", "publish"}
    PROVE  CallsMove /\ CacheType'
<1>1. CallsMove
  BY EndMoves DEF DelCache
<1>2. PICK del \in BOOLEAN : cached' = [cached EXCEPT ![k] = @ /\ ~del]
  BY DEF DelCache
<1>3. cached' \in [Keys -> BOOLEAN]
  BY <1>2, Zenon DEF CacheType
<1>4. QED
  BY <1>1, <1>3 DEF DelCache, CacheType

-----------------------------------------------------------------------------
(* Steps of the lesson half.                                               *)

LessonType ==
    /\ lesson \in {"none", "there", "deleted"} /\ enrolled \subseteq Users
    /\ bloom \in BOOLEAN /\ refresh \in {"idle", "with", "without"}
    /\ count \in Nat /\ members \subseteq Users
    /\ CacheType

\* A handler step of the lesson half keeps the types of its tables.
LEMMA LessonStepMoves ==
    ASSUME call \in [Calls -> CallRecord], StudentCalls, LessonType, NEW c \in Calls,
           LessonStep(c)
    PROVE  CallsMove /\ LessonType'
<1> USE DEF LessonType, tableVars, roomVars, bloomVars, cacheVars, lessonVars, At, Runs
<1>0. /\ {"getlesson", "addbloom", "deldb", "delinfo"} \subseteq LivePcs
      /\ call[c].user \in Users /\ Teacher \in Users
  BY DEF LivePcs, CallRecord, Users
<1> USE <1>0
<1>1. CASE BloomMaybeLesson(c)
  <2>1. CallsMove
    BY <1>1, EndMoves, GotoMoves DEF BloomMaybeLesson
  <2>2. QED
    BY <1>1, <2>1 DEF BloomMaybeLesson, CacheType
<1>2. CASE NotTeacher(c)
  <2>1. CallsMove
    BY <1>2, EndMoves DEF NotTeacher
  <2>2. QED
    BY <1>2, <2>1 DEF NotTeacher, CacheType
<1>3. CASE CreateLesson(c)
  <2>1. CallsMove
    BY <1>3, EndMoves, GotoMoves DEF CreateLesson
  <2>2. QED
    BY <1>3, <2>1 DEF CreateLesson, CacheType
<1>4. CASE AddBloom(c)
  <2>1. CallsMove
    BY <1>4, EndMoves DEF AddBloom
  <2>2. QED
    BY <1>4, <2>1 DEF AddBloom, CacheType
<1>5. CASE DelRoom(c)
  <2>1. CallsMove
    BY <1>5, GotoMoves DEF DelRoom
  <2>2. QED
    BY <1>5, <2>1 DEF DelRoom, CacheType
<1>6. CASE DelLesson(c)
  <2>1. CallsMove
    BY <1>6, GotoMoves DEF DelLesson
  <2>2. QED
    BY <1>6, <2>1 DEF DelLesson, CacheType
<1>7. CASE DelLessonInfo(c)
  <2>1. CallsMove /\ CacheType'
    BY <1>7, DelCacheMoves DEF DelLessonInfo, Keys
  <2>2. QED
    BY <1>7, <2>1 DEF DelLessonInfo
<1>8. CASE ChangeUserInLive(c)
  <2>1. CallsMove
    BY <1>8, EndMoves DEF ChangeUserInLive
  <2>2. QED
    BY <1>8, <2>1 DEF ChangeUserInLive, LiveAdd, LiveDel, CacheType
<1>9. CASE ChangeUserToLesson(c)
  <2>1. CallsMove
    BY <1>9, EndMoves DEF ChangeUserToLesson
  <2>2. QED
    BY <1>9, <2>1 DEF ChangeUserToLesson, CacheType
<1>10. CASE LessonFails(c)
  <2>1. CallsMove
    BY <1>10, EndMoves DEF LessonFails
  <2>2. QED
    BY <1>10, <2>1 DEF LessonFails, CacheType
<1>11. QED
  BY <1>1, <1>2, <1>3, <1>4, <1>5, <1>6, <1>7, <1>8, <1>9, <1>10 DEF LessonStep

\* So does every step of the lesson half.
LEMMA LessonsNextMoves ==
    ASSUME call \in [Calls -> CallRecord], StudentCalls, LessonType, LessonsNext
    PROVE  CallsMove /\ LessonType'
<1> USE DEF LessonType, tableVars, roomVars, bloomVars, cacheVars, lessonVars
<1>1. CASE \E c \in Calls, op \in LessonOps, u \in Users : LessonRequest(c, op, u)
  <2>1. PICK c \in Calls, op \in LessonOps, u \in Users : LessonRequest(c, op, u)
    BY <1>1
  <2>2. CallsMove
    BY <2>1, RequestMoves DEF LessonRequest
  <2>3. QED
    BY <2>1, <2>2 DEF LessonRequest, CacheType
<1>2. CASE \E c \in Calls : LessonStep(c)
  BY <1>2, LessonStepMoves
<1>3. CASE getLessonCached
  <2>1. CallsMove /\ CacheType'
    BY <1>3, CacheMoves DEF getLessonCached, Keys
  <2>2. QED
    BY <1>3, <2>1 DEF getLessonCached
<1>4. CASE GetAllLessonIDs \/ RenameBloom \/ RefreshFails
  BY <1>4 DEF GetAllLessonIDs, RenameBloom, RefreshFails, CacheType, CallsMove, StudentCalls
<1>5. CASE LiveRestart
  <2>1. CallsMove
    BY <1>5, DoneIsCall DEF LiveRestart, CallsMove, StudentCalls, CallRecord, StudentOps, LivePcs
  <2>2. QED
    BY <1>5, <2>1 DEF LiveRestart, CacheType
<1>6. QED
  BY <1>1, <1>2, <1>3, <1>4, <1>5 DEF LessonsNext
-----------------------------------------------------------------------------
(* Steps of the quiz half.                                                 *)

QuizType ==
    /\ question \in {"none", "there", "deleted"} /\ closed \in BOOLEAN
    /\ answers \subseteq [by : Calls, student : Users]
    /\ perm \subseteq Users
    /\ counted \in [Calls -> Nat] /\ told \in Nat /\ dropped \in BOOLEAN

AnswersInv == OneAnswer /\ AnswersFinite /\ ToldOrUnderway

\* The type invariant by the parts the lemmas above keep, before and after a step.
LEMMA TypeParts ==
    /\ TypeOK <=> call \in [Calls -> CallRecord] /\ LessonType /\ QuizType
    /\ TypeOK' <=> call' \in [Calls -> CallRecord] /\ LessonType' /\ QuizType'
BY DEF TypeOK, LessonType, CacheType, QuizType, CallRecord

\* Max of two numbers is one of them and below neither.
LEMMA MaxOfTwo ==
    ASSUME NEW a \in Nat, NEW b \in Nat
    PROVE  Max({a, b}) \in Nat /\ Max({a, b}) >= a /\ Max({a, b}) >= b
<1>1. \E x \in {a, b} : \A y \in {a, b} : x >= y
  <2>1. CASE a >= b
    BY <2>1
  <2>2. CASE b >= a
    BY <2>2
  <2>3. QED
    BY <2>1, <2>2
<1>2. QED
  BY <1>1 DEF Max

\* Answers are counted by a number.
LEMMA AnswersCounted ==
    ASSUME AnswersFinite
    PROVE  Cardinality(answers) \in Nat
BY FS_CardinalityType DEF AnswersFinite

\* Answers that nobody touches stay told or under way while calls in front of
\* their inserts move.
LEMMA AnswersUntouched ==
    ASSUME AnswersInv, CallsMove, UNCHANGED answers, UNCHANGED reportVars
    PROVE  AnswersInv'
<1>1. OneAnswer' /\ AnswersFinite'
  BY DEF AnswersInv, OneAnswer, AnswersFinite
<1>2. ToldOrUnderway'
  BY DEF AnswersInv, ToldOrUnderway, CallsMove, At, reportVars
<1>3. QED
  BY <1>1, <1>2 DEF AnswersInv

\* Handler steps in front of the insert.
LEMMA PlainStepKeeps ==
    ASSUME Inv, NEW c \in Calls,
           \/ requireTeacherOfLesson(c) \/ requireStudentInLesson(c)
           \/ IsStudentInLesson(c) \/ SetPerm(c) \/ CreateQuestion(c)
           \/ CheckCloseTime(c) \/ HasAnswered(c) \/ DelQuestionCache(c)
    PROVE  Inv'
<1> USE DEF lessonVars, tableVars, roomVars, bloomVars, cacheVars, quizVars, quizTables,
        reportVars, At, Runs
<1>0. /\ call \in [Calls -> CallRecord] /\ StudentCalls /\ LessonType /\ QuizType /\ AnswersInv
      /\ {"newquestion", "delquestion", "close", "bloom", "setperm", "answered", "insert"}
           \subseteq LivePcs \cup QuizPcs
      /\ call[c].user \in Users
      /\ {"TorFAnswer", "GetAllLessonQuiz"} = StudentOps
      /\ call[c].pc \in {"setperm", "close", "answered", "insert", "count", "publish"}
             => call[c].op \in StudentOps
  BY TypeParts DEF Inv, AnswersInv, LivePcs, QuizPcs, StudentCalls, StudentOps, CallRecord
<1> SUFFICES CallsMove /\ LessonType' /\ QuizType' /\ UNCHANGED answers /\ UNCHANGED reportVars
  BY <1>0, AnswersUntouched, TypeParts DEF Inv, AnswersInv, CallsMove
<1>1. CASE requireTeacherOfLesson(c)
  <2>1. CallsMove
    BY <1>0, <1>1, GotoMoves DEF requireTeacherOfLesson
  <2>2. QED
    BY <1>0, <1>1, <2>1 DEF requireTeacherOfLesson, LessonType, CacheType, QuizType
<1>2. CASE requireStudentInLesson(c)
  <2>1. CallsMove
    BY <1>0, <1>2, GotoMoves, EndMoves DEF requireStudentInLesson
  <2>2. QED
    BY <1>0, <1>2, <2>1 DEF requireStudentInLesson, LessonType, CacheType, QuizType
<1>3. CASE IsStudentInLesson(c)
  <2>1. CallsMove
    BY <1>0, <1>3, GotoMoves, EndMoves DEF IsStudentInLesson
  <2>2. QED
    BY <1>0, <1>3, <2>1 DEF IsStudentInLesson, LessonType, CacheType, QuizType
<1>4. CASE SetPerm(c)
  <2>1. CallsMove
    BY <1>0, <1>4, GotoMoves, EndMoves DEF SetPerm
  <2>2. QED
    BY <1>0, <1>4, <2>1 DEF SetPerm, LessonType, CacheType, QuizType
<1>5. CASE CreateQuestion(c)
  <2>1. CallsMove
    BY <1>0, <1>5, EndMoves DEF CreateQuestion
  <2>2. QED
    BY <1>0, <1>5, <2>1 DEF CreateQuestion, LessonType, CacheType, QuizType
<1>6. CASE CheckCloseTime(c)
  <2>1. CallsMove
    BY <1>0, <1>6, GotoMoves, EndMoves DEF CheckCloseTime
  <2>2. QED
    BY <1>0, <1>6, <2>1 DEF CheckCloseTime, LessonType, CacheType, QuizType
<1>7. CASE HasAnswered(c)
  <2>1. CallsMove
    BY <1>0, <1>7, GotoMoves, EndMoves DEF HasAnswered
  <2>2. QED
    BY <1>0, <1>7, <2>1 DEF HasAnswered, LessonType, CacheType, QuizType
<1>8. CASE DelQuestionCache(c)
  <2>1. CallsMove /\ CacheType'
    BY <1>0, <1>8, DelCacheMoves DEF DelQuestionCache, LessonType, Keys
  <2>2. QED
    BY <1>0, <1>8, <2>1 DEF DelQuestionCache, LessonType, QuizType
<1>9. QED
  BY <1>1, <1>2, <1>3, <1>4, <1>5, <1>6, <1>7, <1>8

\* The insert: the unique index keeps one row per student, and the call that
\* added a row counts next.
LEMMA InsertKeeps ==
    ASSUME Inv, NEW c \in Calls, CreateUserAnswer(c)
    PROVE  Inv'
<1> USE DEF lessonVars, tableVars, roomVars, bloomVars, cacheVars, quizVars, quizTables,
        reportVars, At
<1>0. /\ call \in [Calls -> CallRecord] /\ StudentCalls /\ LessonType /\ QuizType /\ AnswersInv
      /\ "count" \in QuizPcs
      /\ call[c].pc = "insert" /\ call[c].op \in StudentOps /\ call[c].user \in Users
  BY TypeParts DEF Inv, AnswersInv, QuizPcs, StudentCalls, CreateUserAnswer, CallRecord
<1>1. CallsMove
  BY <1>0, GotoMoves, EndMoves DEF CreateUserAnswer
<1>2. LessonType' /\ QuizType'
  BY <1>0 DEF CreateUserAnswer, LessonType, CacheType, QuizType, Row
<1>3. CASE UNCHANGED answers
  BY <1>0, <1>1, <1>2, <1>3, AnswersUntouched, TypeParts
     DEF CreateUserAnswer, Inv, AnswersInv, CallsMove
<1>4. CASE ~UNCHANGED answers
  <2>1. ~HasRow(call[c].user) /\ answers' = answers \cup {Row(c)} /\ Goto(c, "count")
    BY <1>4 DEF CreateUserAnswer
  <2>2. OneAnswer'
    BY <1>0, <2>1 DEF HasRow, Row, AnswersInv, OneAnswer
  <2>3. AnswersFinite'
    BY <1>0, <2>1, FS_AddElement DEF AnswersInv, AnswersFinite
  <2>4. ToldOrUnderway'
    BY <1>0, <2>1 DEF ToldOrUnderway, Goto
  <2>5. QED
    BY <1>1, <1>2, <2>2, <2>3, <2>4, TypeParts DEF Inv, CallsMove
<1>5. QED
  BY <1>3, <1>4

\* Counting reads at least the call's own row and every row in front of it.
LEMMA CountKeeps ==
    ASSUME Inv, NEW c \in Calls, CountAnswersByQuestion(c)
    PROVE  Inv'
<1> USE DEF lessonVars, tableVars, roomVars, bloomVars, cacheVars, quizTables, At
<1>0. /\ call \in [Calls -> CallRecord] /\ StudentCalls /\ LessonType /\ QuizType /\ AnswersInv
      /\ Cardinality(answers) \in Nat
      /\ call[c].pc = "count" /\ call[c].op \in StudentOps
  BY TypeParts, AnswersCounted
     DEF Inv, AnswersInv, StudentCalls, CountAnswersByQuestion
<1>1. call' = [call EXCEPT ![c] = [call[c] EXCEPT !.pc = "publish"]]
  BY DEF CountAnswersByQuestion, Goto
<1>2. call' \in [Calls -> CallRecord] /\ StudentCalls'
  BY <1>0, <1>1 DEF CallRecord, StudentCalls, QuizPcs, StudentOps
<1>3. LessonType' /\ QuizType'
  BY <1>0 DEF CountAnswersByQuestion, LessonType, CacheType, QuizType
<1>4. OneAnswer' /\ AnswersFinite'
  BY <1>0 DEF CountAnswersByQuestion, AnswersInv, OneAnswer, AnswersFinite
<1>5. ToldOrUnderway'
  BY <1>0, <1>1 DEF CountAnswersByQuestion, ToldOrUnderway, QuizType
<1>6. QED
  BY <1>2, <1>3, <1>4, <1>5, TypeParts DEF Inv

\* Publishing a total keeps the largest one published.
LEMMA PublishKeeps ==
    ASSUME Inv, NEW c \in Calls, PublishStats(c)
    PROVE  Inv'
<1> USE DEF lessonVars, tableVars, roomVars, bloomVars, cacheVars, quizTables, At
<1>0. /\ call \in [Calls -> CallRecord] /\ StudentCalls /\ LessonType /\ QuizType /\ AnswersInv
      /\ Cardinality(answers) \in Nat
      /\ call[c].pc = "publish" /\ counted[c] \in Nat /\ told \in Nat
      /\ call' = [call EXCEPT ![c] = Ended(c)]
  BY TypeParts, AnswersCounted
     DEF Inv, AnswersInv, QuizType, PublishStats, End
<1>1. told' \in Nat /\ told' >= told /\ told' >= counted[c]
  BY <1>0, MaxOfTwo DEF PublishStats
<1>2. call' \in [Calls -> CallRecord] /\ StudentCalls'
  BY <1>0, DoneIsCall DEF CallRecord, StudentCalls, StudentOps
<1>3. LessonType' /\ QuizType'
  BY <1>0, <1>1 DEF PublishStats, LessonType, CacheType, QuizType
<1>4. OneAnswer' /\ AnswersFinite'
  BY <1>0 DEF PublishStats, AnswersInv, OneAnswer, AnswersFinite
<1>5. ToldOrUnderway'
  BY <1>0, <1>1, <1>2 DEF PublishStats, AnswersInv, ToldOrUnderway, QuizType
<1>6. QED
  BY <1>2, <1>3, <1>4, <1>5, TypeParts DEF Inv

\* Deleting the question takes all answers with it.
LEMMA DeleteKeeps ==
    ASSUME Inv, NEW c \in Calls, DelQuestionAndAnswer(c)
    PROVE  Inv'
<1> USE DEF lessonVars, tableVars, roomVars, bloomVars, cacheVars, reportVars, Runs
<1>0. /\ call \in [Calls -> CallRecord] /\ StudentCalls /\ LessonType /\ QuizType
      /\ call[c].pc = "delquestion" /\ answers' = {}
  BY TypeParts DEF Inv, DelQuestionAndAnswer
<1>1. CallsMove
  BY <1>0, GotoMoves DEF DelQuestionAndAnswer
<1>2. LessonType' /\ QuizType'
  BY <1>0 DEF DelQuestionAndAnswer, LessonType, CacheType, QuizType
<1>3. OneAnswer' /\ AnswersFinite' /\ Cardinality(answers') = 0
  BY <1>0, FS_EmptySet DEF OneAnswer, AnswersFinite
<1>4. ToldOrUnderway'
  BY <1>2, <1>3 DEF ToldOrUnderway, QuizType
<1>5. QED
  BY <1>1, <1>2, <1>3, <1>4, TypeParts DEF Inv, CallsMove

\* A failure behind the insert is remembered as a dropped total.
LEMMA FailureKeeps ==
    ASSUME Inv, NEW c \in Calls, QuizFails(c)
    PROVE  Inv'
<1> USE DEF lessonVars, tableVars, roomVars, bloomVars, cacheVars, quizTables, At
<1>0. /\ call \in [Calls -> CallRecord] /\ StudentCalls /\ LessonType /\ QuizType /\ AnswersInv
      /\ call' = [call EXCEPT ![c] = Ended(c)]
  BY TypeParts DEF Inv, AnswersInv, QuizFails, End
<1>1. call' \in [Calls -> CallRecord] /\ StudentCalls'
  BY <1>0, DoneIsCall DEF CallRecord, StudentCalls, StudentOps
<1>2. LessonType'
  BY <1>0 DEF QuizFails, LessonType, CacheType
<1>3. dropped' \in BOOLEAN
  BY Zenon DEF QuizFails
<1>4. QuizType'
  BY <1>0, <1>3 DEF QuizFails, QuizType
<1>5. OneAnswer' /\ AnswersFinite'
  BY <1>0 DEF QuizFails, AnswersInv, OneAnswer, AnswersFinite
<1>6. ToldOrUnderway'
  <2>1. CASE call[c].pc \in {"count", "publish"}
    BY <2>1 DEF QuizFails, ToldOrUnderway
  <2>2. CASE call[c].pc \notin {"count", "publish"}
    BY <1>0, <2>2, <1>1, <1>4, DoneIsCall DEF QuizFails, AnswersInv, ToldOrUnderway, QuizType
  <2>3. QED
    BY <2>1, <2>2
<1>7. QED
  BY <1>1, <1>2, <1>4, <1>5, <1>6, TypeParts DEF Inv
-----------------------------------------------------------------------------
(* The invariant.                                                          *)

\* It holds before the first call.
LEMMA InitInv == Init => Inv
<1> SUFFICES ASSUME Init PROVE Inv
  OBVIOUS
<1> USE DEF Init, LessonsInit, QuizInit
<1>1. call \in [Calls -> CallRecord] /\ StudentCalls
  BY DoneIsCall DEF StudentCalls, StudentOps, Idle
<1>2. LessonType
  BY DEF LessonType, CacheType
<1>3. QuizType
  BY DEF QuizType
<1>4. OneAnswer /\ AnswersFinite /\ ToldOrUnderway
  BY FS_EmptySet DEF OneAnswer, AnswersFinite, ToldOrUnderway
<1>5. QED
  BY <1>1, <1>2, <1>3, <1>4, TypeParts DEF Inv

\* Every step keeps it.
LEMMA NextInv == Inv /\ [Next]_vars => Inv'
<1> SUFFICES ASSUME Inv, [Next]_vars PROVE Inv'
  OBVIOUS
<1>0. /\ call \in [Calls -> CallRecord] /\ StudentCalls /\ LessonType /\ QuizType /\ AnswersInv
  BY TypeParts DEF Inv, AnswersInv
<1>a. ASSUME CallsMove, LessonType', QuizType', UNCHANGED answers, UNCHANGED reportVars
      PROVE  Inv'
  BY <1>0, <1>a, AnswersUntouched, TypeParts DEF Inv, AnswersInv, CallsMove
<1>1. CASE \E c \in Calls, op \in QuizOps, u \in Users : QuizRequest(c, op, u)
  <2>1. PICK c \in Calls, op \in QuizOps, u \in Users : QuizRequest(c, op, u)
    BY <1>1
  <2>2. PICK pc \in {"create", "bloom", "teacher", "perm", "getquestion"} : Request(c, op, u, pc)
    BY <2>1 DEF QuizRequest
  <2>3. CallsMove
    BY <1>0, <2>2, RequestMoves
  <2>4. LessonType' /\ QuizType' /\ UNCHANGED answers /\ UNCHANGED reportVars
    BY <1>0, <2>1 DEF QuizRequest, LessonType, CacheType, QuizType, lessonVars, tableVars,
       roomVars, bloomVars, cacheVars, quizVars, quizTables, reportVars
  <2>5. QED
    BY <1>a, <2>3, <2>4
<1>2. CASE \E c \in Calls : QuizStep(c)
  <2>1. PICK c \in Calls : QuizStep(c)
    BY <1>2
  <2>2. QED
    BY <2>1, PlainStepKeeps, InsertKeeps, CountKeeps, PublishKeeps, DeleteKeeps, FailureKeeps
       DEF QuizStep
<1>3. CASE getQuestionCached \/ QuestionExpires
  <2>1. CallsMove /\ CacheType'
    BY <1>0, <1>3, CacheMoves DEF getQuestionCached, QuestionExpires, LessonType, Keys
  <2>2. LessonType' /\ QuizType' /\ UNCHANGED answers /\ UNCHANGED reportVars
    BY <1>0, <1>3, <2>1 DEF getQuestionCached, QuestionExpires, LessonType, QuizType, tableVars, roomVars,
       bloomVars, quizVars, quizTables, reportVars
  <2>3. QED
    BY <1>a, <2>1, <2>2
<1>4. CASE (\E u \in Users : PermExpires(u)) \/ CloseTimePasses
  <2>1. CallsMove
    BY <1>0, <1>4 DEF PermExpires, CloseTimePasses, CallsMove, StudentCalls
  <2>2. LessonType' /\ QuizType' /\ UNCHANGED answers /\ UNCHANGED reportVars
    BY <1>0, <1>4 DEF PermExpires, CloseTimePasses, LessonType, CacheType, QuizType, lessonVars,
       tableVars, roomVars, bloomVars, cacheVars, quizTables, reportVars
  <2>3. QED
    BY <1>a, <2>1, <2>2
<1>5. CASE LessonsNext /\ UNCHANGED quizVars
  <2>1. CallsMove /\ LessonType'
    BY <1>0, <1>5, LessonsNextMoves
  <2>2. QuizType' /\ UNCHANGED answers /\ UNCHANGED reportVars
    BY <1>0, <1>5 DEF QuizType, quizVars, quizTables, reportVars
  <2>3. QED
    BY <1>a, <2>1, <2>2
<1>6. CASE UNCHANGED vars
  <2>1. CallsMove
    BY <1>0, <1>6 DEF vars, CallsMove, StudentCalls
  <2>2. LessonType' /\ QuizType' /\ UNCHANGED answers /\ UNCHANGED reportVars
    BY <1>0, <1>6 DEF vars, LessonType, CacheType, QuizType, lessonVars,
       tableVars, roomVars, bloomVars, cacheVars, quizVars, quizTables, reportVars
  <2>3. QED
    BY <1>a, <2>1, <2>2
<1>7. QED
  BY <1>1, <1>2, <1>3, <1>4, <1>5, <1>6 DEF Next, QuizNext

\* The invariant above holds in every reachable state.
THEOREM QuizInvariant == Spec => []Inv
BY InitInv, NextInv, PTL DEF Spec

\* A student answers a question once, however many of the student's requests
\* pass HasAnswered before the first CreateUserAnswer.
THEOREM OneAnswerAlways == Spec => []OneAnswer
<1>1. Inv => OneAnswer
  BY DEF Inv
<1>2. QED
  BY <1>1, QuizInvariant, PTL

\* When no answer is between its insert and its publication and no total was
\* dropped, the teacher was told a total that counts every answer, in whatever
\* order the handlers of TorFAnswer counted and published.
THEOREM AllAnswersToldAlways == Spec => []AllAnswersTold
<1>1. Inv => AllAnswersTold
  BY DEF Inv, ToldOrUnderway, AllAnswersTold
<1>2. QED
  BY <1>1, QuizInvariant, PTL

-----------------------------------------------------------------------------
(* What the liveness properties of the caches rest on: states that no step *)
(* leaves, whatever the users go on asking for.                            *)

\* A deleted question that is not cached, and that no flight holds.
Forgotten == question = "deleted" /\ ~cached["question"] /\ flight["question"] # "found"

\* A user outside the lesson without a cached permission or a check that passed.
Out(u) ==
    /\ u \notin enrolled /\ u \notin perm
    /\ \A c \in Calls : At(c, "setperm") => call[c].user # u

\* A question that is gone from the cache stays gone.
StaysForgotten == Forgotten => Forgotten'

\* Of a row that is not there, no step of the cache makes an entry.
LEMMA CacheForgets ==
    ASSUME CacheType, NEW k \in Keys, NEW j \in Keys, NEW exists,
           k = j => exists = FALSE,
           ~cached[k], flight[k] # "found",
           \/ \E c \in Calls : CacheGet(c, j)
           \/ SelectRow(j, exists) \/ SetCache(j) \/ FlightFails(j) \/ Expire(j)
    PROVE  ~cached'[k] /\ flight'[k] # "found"
<1>1. CASE \E c \in Calls : CacheGet(c, j)
  BY <1>1 DEF CacheGet, CacheType
<1>2. CASE SelectRow(j, exists)
  BY <1>2 DEF SelectRow, CacheType
<1>3. CASE SetCache(j)
  <2>1. j # k /\ flight' = [flight EXCEPT ![j] = "none"]
    BY <1>3 DEF SetCache, Land
  <2>2. PICK set \in BOOLEAN : cached' = [cached EXCEPT ![j] = @ \/ set]
    BY <1>3 DEF SetCache
  <2>3. cached'[k] = cached[k]
    BY <2>1, <2>2, Zenon DEF CacheType
  <2>4. QED
    BY <2>1, <2>3 DEF CacheType
<1>4. CASE FlightFails(j)
  BY <1>4 DEF FlightFails, Land, CacheType
<1>5. CASE Expire(j)
  BY <1>5 DEF Expire, CacheType
<1>6. QED
  BY <1>1, <1>2, <1>3, <1>4, <1>5

\* Nor does a Del.
LEMMA DelForgets ==
    ASSUME CacheType, NEW k \in Keys, NEW j \in Keys, NEW c \in Calls, DelCache(c, j),
           ~cached[k], flight[k] # "found"
    PROVE  ~cached'[k] /\ flight'[k] # "found"
<1>1. PICK del \in BOOLEAN : cached' = [cached EXCEPT ![j] = @ /\ ~del]
  BY DEF DelCache
<1>2. ~cached'[k]
  <2>1. CASE j = k
    BY <1>1, <2>1, Zenon DEF CacheType
  <2>2. CASE j # k
    BY <1>1, <2>2, Zenon DEF CacheType
  <2>3. QED
    BY <2>1, <2>2
<1>3. QED
  BY <1>2 DEF DelCache

\* Once a deleted question is out of the cache and no singleflight holds the row,
\* no later call of getQuestionCached brings it back: the TTL has to end one entry.
THEOREM DeletedStaysForgotten == Spec => [][StaysForgotten]_vars
<1> USE DEF tableVars, roomVars, bloomVars, cacheVars, lessonVars, quizVars, quizTables,
        reportVars
<1>1. ASSUME Inv, Next, Forgotten PROVE Forgotten'
  <2>0. /\ CacheType /\ question = "deleted" /\ {"lesson", "question"} = Keys
        /\ ~cached["question"] /\ flight["question"] # "found"
    BY <1>1, TypeParts DEF Inv, LessonType, Keys, Forgotten
  <2>1. CASE QuizNext
    <3>1. CASE getQuestionCached \/ QuestionExpires
      <4>1. ~cached'["question"] /\ flight'["question"] # "found"
        BY <2>0, <3>1, CacheForgets DEF getQuestionCached, QuestionExpires
      <4>2. question' = question
        BY <3>1 DEF getQuestionCached, QuestionExpires
      <4>3. QED
        BY <2>0, <4>1, <4>2 DEF Forgotten
    <3>2. ASSUME NEW c \in Calls, DelQuestionCache(c) PROVE Forgotten'
      <4>1. ~cached'["question"] /\ flight'["question"] # "found"
        BY <2>0, <3>2, DelForgets DEF DelQuestionCache
      <4>2. QED
        BY <2>0, <3>2, <4>1 DEF DelQuestionCache, Forgotten
    <3>3. ASSUME NEW c \in Calls, QuizStep(c), ~DelQuestionCache(c) PROVE Forgotten'
      BY <2>0, <3>3 DEF QuizStep, requireTeacherOfLesson, requireStudentInLesson,
         IsStudentInLesson, SetPerm, CreateQuestion, CheckCloseTime, HasAnswered,
         CreateUserAnswer, CountAnswersByQuestion, PublishStats, DelQuestionAndAnswer,
         QuizFails, Forgotten
    <3>4. CASE \E c \in Calls, op \in QuizOps, u \in Users : QuizRequest(c, op, u)
      BY <2>0, <3>4 DEF QuizRequest, Forgotten
    <3>5. CASE (\E u \in Users : PermExpires(u)) \/ CloseTimePasses
      BY <2>0, <3>5 DEF PermExpires, CloseTimePasses, Forgotten
    <3>6. QED
      BY <2>1, <3>1, <3>2, <3>3, <3>4, <3>5 DEF QuizNext
  <2>2. CASE LessonsNext /\ UNCHANGED quizVars
    <3>0. question' = "deleted"
      BY <2>0, <2>2
    <3>1. CASE getLessonCached
      <4>1. ~cached'["question"] /\ flight'["question"] # "found"
        BY <2>0, <3>1, CacheForgets DEF getLessonCached
      <4>2. QED
        BY <3>0, <4>1 DEF Forgotten
    <3>2. ASSUME NEW c \in Calls, DelLessonInfo(c) PROVE Forgotten'
      <4>1. ~cached'["question"] /\ flight'["question"] # "found"
        BY <2>0, <3>2, DelForgets DEF DelLessonInfo
      <4>2. QED
        BY <3>0, <4>1 DEF Forgotten
    <3>3. ASSUME NEW c \in Calls, LessonStep(c), ~DelLessonInfo(c) PROVE Forgotten'
      BY <2>0, <3>0, <3>3 DEF LessonStep, BloomMaybeLesson, NotTeacher, CreateLesson, AddBloom,
         DelRoom, DelLesson, ChangeUserInLive, ChangeUserToLesson, LessonFails, Forgotten
    <3>4. CASE \E c \in Calls, op \in LessonOps, u \in Users : LessonRequest(c, op, u)
      BY <2>0, <3>0, <3>4 DEF LessonRequest, Forgotten
    <3>5. CASE GetAllLessonIDs \/ RenameBloom \/ RefreshFails \/ LiveRestart
      BY <2>0, <3>0, <3>5 DEF GetAllLessonIDs, RenameBloom, RefreshFails, LiveRestart, CacheType,
         Forgotten
    <3>6. QED
      BY <2>2, <3>1, <3>2, <3>3, <3>4, <3>5 DEF LessonsNext
  <2>3. QED
    BY <1>1, <2>1, <2>2 DEF Next
<1>2. Inv /\ [Next]_vars => [StaysForgotten]_vars
  BY <1>1 DEF StaysForgotten
<1>3. QED
  BY <1>2, QuizInvariant, PTL DEF Spec

\* No call comes to the Set of a permission.
NoNewCheck ==
    \A c \in Calls : call'[c].pc = "setperm" => call'[c] = call[c]

\* A call that ends does not.
LEMMA EndNoCheck ==
    ASSUME NEW c \in Calls, call \in [Calls -> CallRecord], End(c)
    PROVE  NoNewCheck
BY DoneIsCall DEF End, NoNewCheck

\* Nor does one that goes elsewhere,
LEMMA GotoNoCheck ==
    ASSUME NEW c \in Calls, call \in [Calls -> CallRecord], NEW pc, Goto(c, pc), pc # "setperm"
    PROVE  NoNewCheck
BY DEF Goto, NoNewCheck, CallRecord

\* one that begins,
LEMMA RequestNoCheck ==
    ASSUME NEW c \in Calls, call \in [Calls -> CallRecord], NEW op, NEW u, NEW pc,
           Request(c, op, u, pc), pc # "setperm"
    PROVE  NoNewCheck
BY DEF Request, NoNewCheck

\* or one that gets the result of a flight.
LEMMA LandNoCheck ==
    ASSUME call \in [Calls -> CallRecord], NEW k \in Keys, NEW result, Land(k, result)
    PROVE  NoNewCheck
BY DoneIsCall DEF Land, NoNewCheck, CallRecord, HasPc, Keys

\* The same of the cache of one row.
LEMMA CacheNoCheck ==
    ASSUME call \in [Calls -> CallRecord], NEW k \in Keys, NEW exists,
           \/ \E c \in Calls : CacheGet(c, k)
           \/ SelectRow(k, exists) \/ SetCache(k) \/ FlightFails(k) \/ Expire(k)
    PROVE  NoNewCheck
<1>1. CASE \E c \in Calls : CacheGet(c, k)
  <2>1. HasPc[k] # "setperm" /\ WaitPc[k] # "setperm"
    BY DEF HasPc, WaitPc, Keys
  <2>2. QED
    BY <1>1, <2>1, EndNoCheck, GotoNoCheck DEF CacheGet
<1>2. CASE SelectRow(k, exists) \/ Expire(k)
  BY <1>2 DEF SelectRow, Expire, NoNewCheck
<1>3. CASE SetCache(k) \/ FlightFails(k)
  BY <1>3, LandNoCheck DEF SetCache, FlightFails
<1>4. QED
  BY <1>1, <1>2, <1>3

\* A user who is out stays out until enrolled again.
StaysOut == \A u \in Users : Out(u) /\ u \notin enrolled' => Out(u)'

\* Steps that neither set a permission nor come to set one.
LEMMA StaysOutOf ==
    ASSUME call \in [Calls -> CallRecord], NoNewCheck, perm' \subseteq perm
    PROVE  StaysOut
BY DEF StaysOut, Out, NoNewCheck, At

\* Once a removed user has no cached permission and no check that passed before
\* the removal, no request of the user gets one (requireStudentInLesson): the
\* TTL has to end one entry of perm:stu only.
THEOREM RemovedStaysOut == Spec => [][StaysOut]_vars
<1> USE DEF lessonVars, quizVars, quizTables, reportVars
<1>1. ASSUME Inv, Next PROVE StaysOut
  <2>0. call \in [Calls -> CallRecord] /\ {"lesson", "question"} = Keys
    BY <1>1, TypeParts DEF Inv, Keys
  <2>1. CASE QuizNext
    <3>1. ASSUME NEW c \in Calls, IsStudentInLesson(c) PROVE StaysOut
      <4>1. CASE call[c].user \in enrolled
        <5>1. call' = [call EXCEPT ![c] = [call[c] EXCEPT !.pc = "setperm"]]
          BY <3>1, <4>1 DEF IsStudentInLesson, Goto
        <5>2. UNCHANGED <<perm, enrolled>>
          BY <3>1 DEF IsStudentInLesson, tableVars
        <5>3. QED
          BY <2>0, <4>1, <5>1, <5>2 DEF StaysOut, Out, At, CallRecord
      <4>2. CASE call[c].user \notin enrolled
        BY <2>0, <3>1, <4>2, EndNoCheck, StaysOutOf DEF IsStudentInLesson
      <4>3. QED
        BY <4>1, <4>2
    <3>2. ASSUME NEW c \in Calls, SetPerm(c) PROVE StaysOut
      <4>1. NoNewCheck
        BY <2>0, <3>2, EndNoCheck, GotoNoCheck DEF SetPerm
      <4>2. perm' \subseteq perm \cup {call[c].user} /\ At(c, "setperm")
        BY <3>2 DEF SetPerm
      <4>3. QED
        BY <4>1, <4>2 DEF StaysOut, Out, NoNewCheck, At
    <3>3. ASSUME NEW c \in Calls, QuizStep(c), ~IsStudentInLesson(c), ~SetPerm(c)
          PROVE  StaysOut
      <4>1. NoNewCheck
        BY <2>0, <3>3, EndNoCheck, GotoNoCheck DEF QuizStep, requireTeacherOfLesson,
           requireStudentInLesson, CreateQuestion, CheckCloseTime, HasAnswered,
           CreateUserAnswer, CountAnswersByQuestion, PublishStats, DelQuestionAndAnswer,
           DelQuestionCache, DelCache, QuizFails
      <4>2. perm' = perm
        BY <3>3 DEF QuizStep, requireTeacherOfLesson, requireStudentInLesson, CreateQuestion,
           CheckCloseTime, HasAnswered, CreateUserAnswer, CountAnswersByQuestion,
           PublishStats, DelQuestionAndAnswer, DelQuestionCache, QuizFails
      <4>3. QED
        BY <2>0, <4>1, <4>2, StaysOutOf
    <3>4. CASE getQuestionCached \/ QuestionExpires
      BY <2>0, <3>4, CacheNoCheck, StaysOutOf DEF getQuestionCached, QuestionExpires
    <3>5. CASE \E c \in Calls, op \in QuizOps, u \in Users : QuizRequest(c, op, u)
      BY <2>0, <3>5, RequestNoCheck, StaysOutOf DEF QuizRequest
    <3>6. CASE (\E u \in Users : PermExpires(u)) \/ CloseTimePasses
      BY <2>0, <3>6, StaysOutOf DEF PermExpires, CloseTimePasses, NoNewCheck
    <3>7. QED
      BY <2>1, <3>1, <3>2, <3>3, <3>4, <3>5, <3>6 DEF QuizNext
  <2>2. CASE LessonsNext /\ UNCHANGED quizVars
    <3>1. NoNewCheck
      <4>1. ASSUME NEW c \in Calls, LessonStep(c) PROVE NoNewCheck
        BY <2>0, <4>1, EndNoCheck, GotoNoCheck DEF LessonStep, BloomMaybeLesson, NotTeacher,
           CreateLesson, AddBloom, DelRoom, DelLesson, DelLessonInfo, DelCache,
           ChangeUserInLive, ChangeUserToLesson, LessonFails
      <4>2. CASE \E c \in Calls, op \in LessonOps, u \in Users : LessonRequest(c, op, u)
        BY <2>0, <4>2, RequestNoCheck DEF LessonRequest
      <4>3. CASE getLessonCached
        BY <2>0, <4>3, CacheNoCheck DEF getLessonCached
      <4>4. CASE GetAllLessonIDs \/ RenameBloom \/ RefreshFails
        BY <4>4 DEF GetAllLessonIDs, RenameBloom, RefreshFails, NoNewCheck
      <4>5. CASE LiveRestart
        BY <2>0, <4>5, DoneIsCall DEF LiveRestart, NoNewCheck
      <4>6. QED
        BY <2>2, <4>1, <4>2, <4>3, <4>4, <4>5 DEF LessonsNext
    <3>2. QED
      BY <2>0, <2>2, <3>1, StaysOutOf
  <2>3. QED
    BY <1>1, <2>1, <2>2 DEF Next
<1>2. Inv /\ [Next]_vars => [StaysOut]_vars
  BY <1>1
<1>3. QED
  BY <1>2, QuizInvariant, PTL DEF Spec
=============================================================================
