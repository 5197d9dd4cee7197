------------------------------ MODULE IdlQuiz ------------------------------
(***************************************************************************)
(* The messages of the quiz service, one definition per generated struct:  *)
(* its fields in the order FastWriteNocopy writes them.                    *)
(***************************************************************************)
EXTENDS IdlCommon

\* idl/kitex_gen/quiz
CreateQuestionReq == <<F(1, I64), F(2, I64), F(4, I32), F(7, I32), F(3, STR),
    F(5, List(STR)), F(6, STR)>>
CreateQuestionResp == <<F(1, Struct(Resp))>>
TorFAnswerReq == <<F(1, I64), F(2, I64), F(3, STR)>>
TorFAnswerResp == <<F(1, Struct(Resp))>>
DelQuestionReq == <<F(1, I64), F(2, I64)>>
DelQuestionResp == <<F(1, Struct(Resp))>>
GetAllLessonQuizReq == <<F(1, I64), F(2, I64)>>
GetAllLessonQuizResp == <<F(1, Struct(Resp))>>
QuizServiceCreateQuestionArgs == Args(CreateQuestionReq)
QuizServiceCreateQuestionResult == Result(CreateQuestionResp)
QuizServiceTorFAnswerArgs == Args(TorFAnswerReq)
QuizServiceTorFAnswerResult == Result(TorFAnswerResp)
QuizServiceDelQuestionArgs == Args(DelQuestionReq)
QuizServiceDelQuestionResult == Result(DelQuestionResp)
QuizServiceGetAllLessonQuizArgs == Args(GetAllLessonQuizReq)
QuizServiceGetAllLessonQuizResult == Result(GetAllLessonQuizResp)

\* The methods of the service: the types of its arguments and results.
QuizService == {
    <<QuizServiceCreateQuestionArgs, QuizServiceCreateQuestionResult>>,
    <<QuizServiceTorFAnswerArgs, QuizServiceTorFAnswerResult>>,
    <<QuizServiceDelQuestionArgs, QuizServiceDelQuestionResult>>,
    <<QuizServiceGetAllLessonQuizArgs, QuizServiceGetAllLessonQuizResult>>}
=============================================================================
