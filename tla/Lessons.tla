------------------------------ MODULE Lessons ------------------------------
(***************************************************************************)
(* The lesson half of the live service: a lesson's row and enrolments in   *)
(* MySQL, and what Redis holds about it: the Bloom filter of lesson ids,   *)
(* the cached row, and the count and member hash of its live room.         *)
(*                                                                         *)
(* Lessons share only the Bloom filter, which treats ids alike, so one     *)
(* lesson is modelled.  A handler is a call that makes one database or     *)
(* Redis operation per step.  Rows are never updated, so a cached row only *)
(* says that the row existed.  perm:teacher is left out: it saves a        *)
(* comparison whose outcome never changes.                                 *)
(***************************************************************************)
EXTENDS Naturals, FiniteSets

CONSTANTS
    Calls,      \* handler calls, each used once
    Caller,     \* some calls -> the user who makes that call again and again
    Students,
    Teacher

ASSUME UsersAssumption == Teacher \notin Students /\ IsFiniteSet(Students)

VARIABLES
    lesson,     \* the lesson's row: "none" yet, "there" or "deleted"
    enrolled,   \* users with a lesson_students row of status 1
    bloom,      \* BF.EXISTS bloom:lesson answers 1
    refresh,    \* refreshBloom: "idle", or whether tmpKey gets the id
    count,      \* live:room:<id>:count
    members,    \* fields of live:room:<id>:members
    cached,     \* key -> the row is in Redis
    flight,     \* key -> the singleflight of that key
    call        \* call -> its handler, position and user

tableVars == <<lesson, enrolled>>
roomVars == <<count, members>>
bloomVars == <<bloom, refresh>>
cacheVars == <<cached, flight>>
lessonVars == <<tableVars, roomVars, bloomVars, cacheVars>>

Users == Students \cup {Teacher}
Keys == {"lesson", "question"}    \* lesson:info:<id> and quiz:question:<id>
LessonOps == {"CreateLesson", "DelLesson", "join", "leave", "enroll", "expel"}
TeacherOps == {"DelLesson", "enroll", "expel", "CreateQuestion", "DelQuestion"}

Idle == [op |-> "none", pc |-> "idle", user |-> Teacher]
Done == [Idle EXCEPT !.pc = "done"]
Ended(c) == IF c \in DOMAIN Caller THEN Idle ELSE Done

LessonsInit ==
    /\ lesson \in {"none", "there"}
    /\ enrolled = IF lesson = "there" THEN Users ELSE {}
    /\ bloom = (lesson = "there")
    /\ refresh = "idle"
    /\ count = 0 /\ members = {}
    /\ cached = [k \in Keys |-> FALSE]
    /\ flight = [k \in Keys |-> "none"]
    /\ call = [c \in Calls |-> Idle]

-----------------------------------------------------------------------------
At(c, pc) == call[c].pc = pc
Runs(c, op, pc) == call[c].op = op /\ call[c].pc = pc
Goto(c, pc) == call' = [call EXCEPT ![c].pc = pc]
End(c) == call' = [call EXCEPT ![c] = Ended(c)]

Request(c, op, u, pc) ==
    /\ At(c, "idle")
    /\ call' = [call EXCEPT ![c] = [op |-> op, pc |-> pc, user |-> u]]

-----------------------------------------------------------------------------
(* getLessonCached and getQuestionCached: the same code for two keys.      *)

GetPc  == [lesson |-> "getlesson",  question |-> "getquestion"]
WaitPc == [lesson |-> "waitlesson", question |-> "waitquestion"]
HasPc  == [lesson |-> "haslesson",  question |-> "hasquestion"]

\* Redis has the row, or the call joins or opens the flight, or Get failed.
CacheGet(c, k) ==
    /\ At(c, GetPc[k])
    /\ \/ cached[k] /\ Goto(c, HasPc[k]) /\ UNCHANGED flight
       \/ /\ ~cached[k] /\ Goto(c, WaitPc[k])
          /\ flight' = [flight EXCEPT ![k] = IF @ = "none" THEN "select" ELSE @]
       \/ End(c) /\ UNCHANGED flight
    /\ UNCHANGED cached

\* The flight's leader reads the row from MySQL.
SelectRow(k, exists) ==
    /\ flight[k] = "select"
    /\ flight' = [flight EXCEPT ![k] = IF exists THEN "found" ELSE "missing"]
    /\ UNCHANGED <<cached, call>>

\* All calls that wait for the flight get its result.
Land(k, result) ==
    /\ flight' = [flight EXCEPT ![k] = "none"]
    /\ call' = [c \in Calls |-> IF ~At(c, WaitPc[k]) THEN call[c]
                                ELSE IF result = "error" THEN Ended(c)
                                ELSE [call[c] EXCEPT !.pc = HasPc[k]]]

\* The row goes into the cache (an error of Set is ignored) and to the calls.
SetCache(k) ==
    /\ flight[k] = "found"
    /\ \E set \in BOOLEAN : cached' = [cached EXCEPT ![k] = @ \/ set]
    /\ Land(k, "row")

\* There is no row, or the leader's query failed.
FlightFails(k) ==
    /\ flight[k] \in {"select", "missing"}
    /\ Land(k, "error")
    /\ UNCHANGED cached

\* Five minutes and some seconds after Set.
Expire(k) ==
    /\ cached[k]
    /\ cached' = [cached EXCEPT ![k] = FALSE]
    /\ UNCHANGED <<flight, call>>

\* The last step of a handler: Del, whose error is ignored.
DelCache(c, k) ==
    /\ \E del \in BOOLEAN : cached' = [cached EXCEPT ![k] = @ /\ ~del]
    /\ End(c)
    /\ UNCHANGED flight

-----------------------------------------------------------------------------
(* ensureLessonExists, before every operation on the lesson.               *)

\* The filter says no, says maybe, or cannot be asked.
BloomMaybeLesson(c) ==
    /\ At(c, "bloom")
    /\ \/ ~bloom /\ End(c)
       \/ Goto(c, "getlesson")
    /\ UNCHANGED lessonVars

getLessonCached ==
    /\ \/ \E c \in Calls : CacheGet(c, "lesson")
       \/ SelectRow("lesson", lesson = "there")
       \/ SetCache("lesson")
       \/ FlightFails("lesson")
       \/ Expire("lesson")
    /\ UNCHANGED <<tableVars, roomVars, bloomVars>>

\* requireTeacherOfLesson: the caller is not the lesson's teacher.
NotTeacher(c) ==
    /\ At(c, "haslesson") /\ call[c].op \in TeacherOps
    /\ End(c)
    /\ UNCHANGED lessonVars

-----------------------------------------------------------------------------
\* A request arrives; the caller of CreateLesson has the role of a teacher.
LessonRequest(c, op, u) ==
    /\ op = "CreateLesson" => u = Teacher /\ lesson = "none"
    /\ op = "DelLesson" => u = Teacher
    /\ c \notin DOMAIN Caller
    /\ Request(c, op, u, IF op = "CreateLesson" THEN "create" ELSE "bloom")
    /\ UNCHANGED lessonVars

\* CreateLesson: the lesson and the teacher's enrolment in one transaction (its
\* third row, an ADD_BLOOM event of the outbox table, is left out: nothing in
\* the tree reads it); the Del of lesson:info finds no entry of the new id.
CreateLesson(c) ==
    /\ Runs(c, "CreateLesson", "create")
    /\ \/ /\ lesson = "none"
          /\ lesson' = "there" /\ enrolled' = {Teacher}
          /\ Goto(c, "addbloom")
       \/ End(c) /\ UNCHANGED tableVars
    /\ UNCHANGED <<roomVars, bloomVars, cacheVars>>

\* The new id is added to the filter; when that fails the caller gets an error.
AddBloom(c) ==
    /\ Runs(c, "CreateLesson", "addbloom")
    /\ bloom' \in {bloom, TRUE}
    /\ End(c)
    /\ UNCHANGED <<tableVars, roomVars, refresh, cacheVars>>

\* DelLesson, first step: del_room_allkey.lua, which may fail.
DelRoom(c) ==
    /\ Runs(c, "DelLesson", "haslesson")
    /\ count' = 0 /\ members' = {}
    /\ Goto(c, "deldb")
    /\ UNCHANGED <<tableVars, bloomVars, cacheVars>>

\* Then the transaction that deletes the row and the enrolments.
DelLesson(c) ==
    /\ Runs(c, "DelLesson", "deldb")
    /\ lesson' = "deleted" /\ enrolled' = {}
    /\ Goto(c, "delinfo")
    /\ UNCHANGED <<roomVars, bloomVars, cacheVars>>

\* Then Del of the cached row.
DelLessonInfo(c) ==
    /\ Runs(c, "DelLesson", "delinfo")
    /\ DelCache(c, "lesson")
    /\ UNCHANGED <<tableVars, roomVars, bloomVars>>

\* live_room_change.lua, one atomic script; the counter is moved only when
\* the hash changes.
LiveAdd(u) ==
    /\ members' = members \cup {u}
    /\ count' = IF u \in members THEN count ELSE count + 1

LiveDel(u) ==
    /\ members' = members \ {u}
    /\ count' = IF u \in members /\ count > 0 THEN count - 1 ELSE count

ChangeUserInLive(c) ==
    /\ \/ Runs(c, "join", "haslesson") /\ LiveAdd(call[c].user)
       \/ Runs(c, "leave", "haslesson") /\ LiveDel(call[c].user)
    /\ End(c)
    /\ UNCHANGED <<tableVars, bloomVars, cacheVars>>

\* ChangeUserToLesson: one transaction, which needs the row.
ChangeUserToLesson(c) ==
    /\ At(c, "haslesson") /\ call[c].op \in {"enroll", "expel"}
    /\ enrolled' = IF lesson # "there" THEN enrolled
                   ELSE IF call[c].op = "enroll" THEN enrolled \cup {call[c].user}
                                                 ELSE enrolled \ {call[c].user}
    /\ End(c)
    /\ UNCHANGED <<lesson, roomVars, bloomVars, cacheVars>>

\* A query, script or transaction of the handler fails: its error is returned.
LessonFails(c) ==
    /\ call[c].op \in LessonOps /\ call[c].pc \in {"haslesson", "deldb"}
    /\ End(c)
    /\ UNCHANGED lessonVars

-----------------------------------------------------------------------------
(* refreshBloom, every 30 minutes: a new filter from all ids replaces the  *)
(* one the handlers add to.                                                *)
GetAllLessonIDs ==
    /\ refresh = "idle"
    /\ refresh' = IF lesson = "there" THEN "with" ELSE "without"
    /\ UNCHANGED <<bloom, tableVars, roomVars, cacheVars, call>>

\* Mutant: the new filter stays at its temporary key.
BuildBloom ==
    /\ refresh # "idle"
    /\ refresh' = "idle"
    /\ UNCHANGED <<bloom, tableVars, roomVars, cacheVars, call>>

RenameBloom ==
    /\ refresh # "idle"
    /\ bloom' = (refresh = "with")
    /\ refresh' = "idle"
    /\ UNCHANGED <<tableVars, roomVars, cacheVars, call>>

RefreshFails ==
    /\ refresh # "idle"
    /\ refresh' = "idle"
    /\ UNCHANGED <<bloom, tableVars, roomVars, cacheVars, call>>

\* The service restarts: its calls die and InitBloom adds all ids.
LivePcs == {"bloom", "getlesson", "waitlesson", "haslesson", "create", "addbloom",
            "deldb", "delinfo"}
LiveRestart ==
    /\ call' = [c \in Calls |-> IF call[c].pc \in LivePcs THEN Ended(c) ELSE call[c]]
    /\ flight' = [flight EXCEPT !["lesson"] = "none"]
    /\ bloom' = (bloom \/ lesson = "there")
    /\ refresh' = "idle"
    /\ UNCHANGED <<tableVars, roomVars, cached>>

LessonStep(c) ==
    \/ BloomMaybeLesson(c) \/ NotTeacher(c)
    \/ CreateLesson(c) \/ AddBloom(c)
    \/ DelRoom(c) \/ DelLesson(c) \/ DelLessonInfo(c)
    \/ ChangeUserInLive(c) \/ ChangeUserToLesson(c) \/ LessonFails(c)

LessonsNext ==
    \/ \E c \in Calls, op \in LessonOps, u \in Users : LessonRequest(c, op, u)
    \/ \E c \in Calls : LessonStep(c)
    \/ getLessonCached
    \/ GetAllLessonIDs \/ RenameBloom \/ RefreshFails
    \/ LiveRestart
=============================================================================
