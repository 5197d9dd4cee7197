------------------------------- MODULE Quiz -------------------------------
(***************************************************************************)
(* The quiz service on top of the lessons: a question of the lesson, its   *)
(* answers, the cached question and the cached permission of each student, *)
(* with the calls to the live service that the handlers make.              *)
(***************************************************************************)
EXTENDS Lessons, FiniteSetsExt

VARIABLES
    question,   \* the question's row: "none" yet, "there" or "deleted"
    closed,     \* CloseTime has passed
    answers,    \* rows of the answers table, each named by its call
    perm,       \* users with an entry perm:stu:<lesson>:<user>
    counted,    \* call -> the total of the counts it read
    told,       \* the largest total published on quiz:broadcast
    dropped     \* an answer's total was not published: counting or Publish failed

quizTables == <<question, closed, answers>>
reportVars == <<counted, told, dropped>>
quizVars == <<quizTables, perm, reportVars>>
vars == <<lessonVars, call, quizVars>>

QuizOps == {"CreateQuestion", "TorFAnswer", "DelQuestion", "GetAllLessonQuiz"}
StudentOps == {"TorFAnswer", "GetAllLessonQuiz"}
QuizPcs == {"teacher", "newquestion", "hasquestion", "perm", "setperm", "close", "answered",
            "insert", "count", "publish", "delquestion"}

QuizInit ==
    /\ question \in (IF lesson = "there" THEN {"none", "there"} ELSE {"none"})
    /\ closed = FALSE
    /\ answers = {} /\ perm = {}
    /\ counted = [c \in Calls |-> 0]
    /\ told = 0
    /\ dropped = FALSE

-----------------------------------------------------------------------------
\* No handler asks for the role of a student: a teacher, who is enrolled like
\* everybody else, may answer too.
QuizRequest(c, op, u) ==
    /\ op = "CreateQuestion" => u = Teacher /\ question = "none"
    /\ op = "DelQuestion" => u = Teacher
    /\ c \in DOMAIN Caller => op \in StudentOps /\ u = Caller[c]
    /\ Request(c, op, u, CASE op = "CreateQuestion"   -> "teacher"
                           [] op = "GetAllLessonQuiz" -> "perm"
                           [] OTHER                   -> "getquestion")
    /\ UNCHANGED <<lessonVars, quizVars>>

\* Mutant: the query also finds the row of a deleted question.
getQuestionUnscoped ==
    /\ \/ \E c \in Calls : CacheGet(c, "question")
       \/ SelectRow("question", question # "none")
       \/ SetCache("question")
       \/ FlightFails("question")
    /\ UNCHANGED <<tableVars, roomVars, bloomVars, quizVars>>

getQuestionCached ==
    /\ \/ \E c \in Calls : CacheGet(c, "question")
       \/ SelectRow("question", question = "there")
       \/ SetCache("question")
       \/ FlightFails("question")
    /\ UNCHANGED <<tableVars, roomVars, bloomVars, quizVars>>

QuestionExpires ==
    /\ Expire("question")
    /\ UNCHANGED <<tableVars, roomVars, bloomVars, quizVars>>

\* requireTeacherOfLesson: GetLessonInfoById reads the row from MySQL.
requireTeacherOfLesson(c) ==
    /\ \/ Runs(c, "CreateQuestion", "teacher")
       \/ Runs(c, "DelQuestion", "hasquestion")
    /\ lesson = "there"
    /\ Goto(c, IF call[c].op = "CreateQuestion" THEN "newquestion" ELSE "delquestion")
    /\ UNCHANGED <<lessonVars, quizVars>>

\* requireStudentInLesson: the cached permission, or (also when Get fails) a
\* call of the live service.
requireStudentInLesson(c) ==
    /\ \/ Runs(c, "TorFAnswer", "hasquestion")
       \/ Runs(c, "GetAllLessonQuiz", "perm")
    /\ \/ Goto(c, "bloom")
       \/ /\ call[c].user \in perm
          /\ IF call[c].op = "TorFAnswer" THEN Goto(c, "close") ELSE End(c)
    /\ UNCHANGED <<lessonVars, quizVars>>

\* Mutant: the enrolment is not looked up.
IsInAnyLesson(c) ==
    /\ At(c, "haslesson") /\ call[c].op \in StudentOps
    /\ Goto(c, "setperm")
    /\ UNCHANGED <<lessonVars, quizVars>>

\* IsStudentInLesson of the live service, after ensureLessonExists.
IsStudentInLesson(c) ==
    /\ At(c, "haslesson") /\ call[c].op \in StudentOps
    /\ IF call[c].user \in enrolled THEN Goto(c, "setperm") ELSE End(c)
    /\ UNCHANGED <<lessonVars, quizVars>>

\* Back in the quiz service: Set, whose error is ignored.
SetPerm(c) ==
    /\ At(c, "setperm")
    /\ perm' \in {perm, perm \cup {call[c].user}}
    /\ IF call[c].op = "TorFAnswer" THEN Goto(c, "close") ELSE End(c)
    /\ UNCHANGED <<lessonVars, quizTables, reportVars>>

PermExpires(u) ==
    /\ u \in perm
    /\ perm' = perm \ {u}
    /\ UNCHANGED <<lessonVars, call, quizTables, reportVars>>

-----------------------------------------------------------------------------
\* CreateQuestion: insert; the Del after it finds no entry of the new id.
CreateQuestion(c) ==
    /\ Runs(c, "CreateQuestion", "newquestion")
    /\ question = "none"
    /\ question' = "there"
    /\ End(c)
    /\ UNCHANGED <<lessonVars, closed, answers, perm, reportVars>>

CloseTimePasses ==
    /\ question = "there" /\ ~closed
    /\ closed' = TRUE
    /\ UNCHANGED <<lessonVars, call, question, answers, perm, reportVars>>

CheckCloseTime(c) ==
    /\ At(c, "close")
    /\ IF question = "there" /\ ~closed THEN Goto(c, "answered") ELSE End(c)
    /\ UNCHANGED <<lessonVars, quizVars>>

Row(c) == [by |-> c, student |-> call[c].user]
HasRow(u) == \E a \in answers : a.student = u

HasAnswered(c) ==
    /\ At(c, "answered")
    /\ IF HasRow(call[c].user) THEN End(c) ELSE Goto(c, "insert")
    /\ UNCHANGED <<lessonVars, quizVars>>

\* Mutant: no unique index idx_question_user.
InsertAlways(c) ==
    /\ At(c, "insert")
    /\ answers' = answers \cup {Row(c)}
    /\ Goto(c, "count")
    /\ UNCHANGED <<lessonVars, question, closed, perm, reportVars>>

\* The unique index refuses a second row of a student.
CreateUserAnswer(c) ==
    /\ At(c, "insert")
    /\ \/ HasRow(call[c].user) /\ End(c) /\ UNCHANGED answers
       \/ /\ ~HasRow(call[c].user)
          /\ answers' = answers \cup {Row(c)}
          /\ Goto(c, "count")
    /\ UNCHANGED <<lessonVars, question, closed, perm, reportVars>>

\* Mutant: the counts miss the row that was just inserted.
CountBefore(c) ==
    /\ At(c, "count")
    /\ counted' = [counted EXCEPT ![c] = Cardinality(answers) - 1]
    /\ Goto(c, "publish")
    /\ UNCHANGED <<lessonVars, quizTables, perm, told, dropped>>

CountAnswersByQuestion(c) ==
    /\ At(c, "count")
    /\ counted' = [counted EXCEPT ![c] = Cardinality(answers)]
    /\ Goto(c, "publish")
    /\ UNCHANGED <<lessonVars, quizTables, perm, told, dropped>>

\* The goroutine of the handler, in any order with those of others.
PublishStats(c) ==
    /\ At(c, "publish")
    /\ told' = Max({told, counted[c]})
    /\ counted' = [counted EXCEPT ![c] = 0]
    /\ End(c)
    /\ UNCHANGED <<lessonVars, quizTables, perm, dropped>>

\* DelQuestion: one transaction for the answers and the question.
DelQuestionAndAnswer(c) ==
    /\ Runs(c, "DelQuestion", "delquestion")
    /\ answers' = {} /\ question' = "deleted"
    /\ Goto(c, "delcache")
    /\ UNCHANGED <<lessonVars, closed, perm, reportVars>>

DelQuestionCache(c) ==
    /\ Runs(c, "DelQuestion", "delcache")
    /\ DelCache(c, "question")
    /\ UNCHANGED <<tableVars, roomVars, bloomVars, quizVars>>

\* A query, a call of another service (which may time out wherever it is) or
\* Publish fails; the caller may also not be the teacher.
QuizFails(c) ==
    /\ call[c].pc \in QuizPcs \/ (call[c].op \in StudentOps /\ call[c].pc \in LivePcs)
    /\ End(c)
    /\ counted' = [counted EXCEPT ![c] = 0]
    /\ dropped' = (dropped \/ call[c].pc \in {"count", "publish"})
    /\ UNCHANGED <<lessonVars, quizTables, perm, told>>

QuizStep(c) ==
    \/ requireTeacherOfLesson(c) \/ requireStudentInLesson(c)
    \/ IsStudentInLesson(c) \/ SetPerm(c)
    \/ CreateQuestion(c)
    \/ CheckCloseTime(c) \/ HasAnswered(c) \/ CreateUserAnswer(c)
    \/ CountAnswersByQuestion(c) \/ PublishStats(c)
    \/ DelQuestionAndAnswer(c) \/ DelQuestionCache(c)
    \/ QuizFails(c)

QuizNext ==
    \/ \E c \in Calls, op \in QuizOps, u \in Users : QuizRequest(c, op, u)
    \/ \E c \in Calls : QuizStep(c)
    \/ getQuestionCached \/ QuestionExpires
    \/ \E u \in Users : PermExpires(u)
    \/ CloseTimePasses

Init == LessonsInit /\ QuizInit
Next == QuizNext \/ (LessonsNext /\ UNCHANGED quizVars)
Spec == Init /\ [][Next]_vars

(***************************************************************************)
(* Entries expire, since Get does not renew their TTL, and of the refreshes *)
(* of the Bloom filter, one every 30 minutes, not all fail.  Of callers    *)
(* nothing is assumed: they may ask for ever.                              *)
(***************************************************************************)
Fairness ==
    /\ WF_vars(QuestionExpires)
    /\ \A u \in Users : WF_vars(PermExpires(u))
    /\ WF_vars(GetAllLessonIDs /\ UNCHANGED quizVars)
    /\ SF_vars(RenameBloom /\ UNCHANGED quizVars)

FairSpec == Spec /\ Fairness

-----------------------------------------------------------------------------
TypeOK ==
    /\ lesson \in {"none", "there", "deleted"} /\ enrolled \subseteq Users
    /\ bloom \in BOOLEAN /\ refresh \in {"idle", "with", "without"}
    /\ count \in Nat /\ members \subseteq Users
    /\ cached \in [Keys -> BOOLEAN]
    /\ flight \in [Keys -> {"none", "select", "found", "missing"}]
    /\ call \in [Calls -> [op : LessonOps \cup QuizOps \cup {"none"}, user : Users,
                           pc : LivePcs \cup QuizPcs \cup
                                  {"idle", "done", "getquestion", "waitquestion", "delcache"}]]
    /\ question \in {"none", "there", "deleted"} /\ closed \in BOOLEAN
    /\ answers \subseteq [by : Calls, student : Users]
    /\ perm \subseteq Users
    /\ counted \in [Calls -> Nat] /\ told \in Nat /\ dropped \in BOOLEAN

(***************************************************************************)
(* A student answers a question once.  HasAnswered and Create are separate *)
(* statements: two requests of the student may both find no row.           *)
(***************************************************************************)
OneAnswer == \A a, b \in answers : a.student = b.student => a = b

(***************************************************************************)
(* When no answer is between its insert and its publication, some          *)
(* published total counted all answers: the teacher has been told of every *)
(* answer, although each handler counts and publishes on its own           *)
(* (TorFAnswer's CountAnswersByQuestion and goroutine).                    *)
(***************************************************************************)
AllAnswersTold ==
    question = "there" /\ ~dropped /\ (\A c \in Calls : ~At(c, "count") /\ ~At(c, "publish"))
      => told >= Cardinality(answers)

(***************************************************************************)
(* A deleted question is forgotten for good, although users go on asking   *)
(* for it: a handler that read it before the deletion may still put it in  *)
(* the cache after DelQuestion's Del, and that Del may fail, but the entry *)
(* expires, and the calls that come then find no row to renew it with      *)
(* (getQuestionCached).                                                    *)
(***************************************************************************)
DeletedForgotten ==
    [](question = "deleted" => <>[]~cached["question"])

(***************************************************************************)
(* A user who was removed from the lesson loses the cached permission for  *)
(* good, although the user goes on asking: ChangeUserToLesson does not     *)
(* delete perm:stu, and a check that ran before the removal may set it     *)
(* after, but it expires and later checks (IsStudentInLesson) refuse.      *)
(***************************************************************************)
RemovedLosesPermission ==
    \A u \in Users : <>[](u \notin enrolled) => <>[](u \notin perm)

(***************************************************************************)
(* An existing lesson is eventually found, and stays found: its id may be  *)
(* missing from the filter because AddBloom failed, because the service    *)
(* died before it, or because refreshBloom read the ids before the lesson  *)
(* was created and renamed its filter after AddBloom.                      *)
(***************************************************************************)
LessonFound == <>[](lesson = "there" => bloom)
=============================================================================
