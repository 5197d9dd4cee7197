------------------------------ MODULE IdlLive ------------------------------
(***************************************************************************)
(* The messages of the live-class service, one definition per generated    *)
(* struct: its fields in the order FastWriteNocopy writes them.            *)
(***************************************************************************)
EXTENDS IdlCommon

\* idl/kitex_gen/webrtc_live
BroadcastReq == <<F(1, I64), F(2, I64), F(3, STR)>>
BroadcastResp == <<F(1, Struct(Resp))>>
ViewReq == <<F(1, I64), F(2, I64), F(3, STR)>>
ViewResp == <<F(1, Struct(Resp))>>
CreateLessonReq == <<F(1, I64), F(2, STR), F(3, STR)>>
CreateLessonResp == <<F(1, Struct(Resp))>>
DelLessonReq == <<F(1, I64), F(2, I64)>>
DelLessonResp == <<F(1, Struct(Resp))>>
ChangeUserInLiveReq == <<F(1, I64), F(2, I64), F(3, STR)>>
ChangeUserInLiveResp == <<F(1, Struct(Resp))>>
ChangeUserToLessonReq == <<F(1, I64), F(2, I64), F(3, I64), F(4, STR)>>
ChangeUserToLessonResp == <<F(1, Struct(Resp))>>
GetLessonInfoByIdReq == <<F(1, I64)>>
GetLessonInfoByIdResp == <<F(1, Struct(Resp))>>
SelectLessonInfoReq == <<F(1, I64)>>
SelectLessonInfoResp == <<F(1, Struct(Resp))>>
GetLessonInfoReq == <<F(1, STR), F(2, STR)>>
GetLessonInfoResp == <<F(1, Struct(Resp))>>
IsStudentInLessonReq == <<F(1, I64), F(2, I64)>>
IsStudentInLessonResp == <<F(1, Struct(Resp))>>
CreateSignInReq == <<F(1, I64), F(2, I64), F(3, I64)>>
CreateSignInResp == <<F(1, Struct(Resp))>>
SignInReq == <<F(1, I64), F(2, I64)>>
SignInResp == <<F(1, Struct(Resp))>>
SelectSignInReq == <<F(1, I64), F(2, I64)>>
SelectSignInResp == <<F(1, Struct(Resp))>>
DelSignInReq == <<F(1, I64), F(2, I64)>>
DelSignInResp == <<F(1, Struct(Resp))>>
RollCallInRandomReq == <<F(1, I64), F(2, I64)>>
RollCallInRandomResp == <<F(1, Struct(Resp))>>
RecordLessonReq == <<F(1, I64), F(2, I64), F(3, STR)>>
RecordLessonResp == <<F(1, Struct(Resp))>>
SaveWhiteBoardJsonReq == <<F(1, I64), F(2, I64), F(3, STR)>>
SaveWhiteBoardJsonResp == <<F(1, Struct(Resp))>>
GetWhiteBoardJsonReq == <<F(1, I64), F(2, I64)>>
GetWhiteBoardJsonResp == <<F(1, Struct(Resp))>>
PublishMicReq == <<F(1, I64), F(2, I64), F(3, STR)>>
PublishMicResp == <<F(1, Struct(Resp))>>
RaiseHandReq == <<F(1, I64), F(2, I64)>>
RaiseHandResp == <<F(1, Struct(Resp))>>
GetRaiseHandReq == <<F(1, I64), F(2, I64)>>
GetRaiseHandResp == <<F(1, Struct(Resp))>>
ApproveHandReq == <<F(1, I64), F(2, I64), F(3, I64)>>
ApproveHandResp == <<F(1, Struct(Resp))>>
ViewMicReq == <<F(1, I64), F(2, I64), F(3, STR)>>
ViewMicResp == <<F(1, Struct(Resp))>>
ListAllLessonRecordReq == <<F(1, I64), F(2, I64)>>
ListAllLessonRecordResp == <<F(1, Struct(Resp))>>
GetLessonRecordReq == <<F(1, I64), F(2, I64), F(3, STR)>>
GetLessonRecordResp == <<F(1, STR)>>
WebrtcLiveBroadcastArgs == Args(BroadcastReq)
WebrtcLiveBroadcastResult == Result(BroadcastResp)
WebrtcLiveViewArgs == Args(ViewReq)
WebrtcLiveViewResult == Result(ViewResp)
WebrtcLiveCreateLessonArgs == Args(CreateLessonReq)
WebrtcLiveCreateLessonResult == Result(CreateLessonResp)
WebrtcLiveDelLessonArgs == Args(DelLessonReq)
WebrtcLiveDelLessonResult == Result(DelLessonResp)
WebrtcLiveChangeUserInLiveArgs == Args(ChangeUserInLiveReq)
WebrtcLiveChangeUserInLiveResult == Result(ChangeUserInLiveResp)
WebrtcLiveChangeUserToLessonArgs == Args(ChangeUserToLessonReq)
WebrtcLiveChangeUserToLessonResult == Result(ChangeUserToLessonResp)
WebrtcLiveGetLessonInfoByIdArgs == Args(GetLessonInfoByIdReq)
WebrtcLiveGetLessonInfoByIdResult == Result(GetLessonInfoByIdResp)
WebrtcLiveSelectLessonInfoArgs == Args(SelectLessonInfoReq)
WebrtcLiveSelectLessonInfoResult == Result(SelectLessonInfoResp)
WebrtcLiveGetLessonInfoArgs == Args(GetLessonInfoReq)
WebrtcLiveGetLessonInfoResult == Result(GetLessonInfoResp)
WebrtcLiveIsStudentInLessonArgs == Args(IsStudentInLessonReq)
WebrtcLiveIsStudentInLessonResult == Result(IsStudentInLessonResp)
WebrtcLiveCreateSignInArgs == Args(CreateSignInReq)
WebrtcLiveCreateSignInResult == Result(CreateSignInResp)
WebrtcLiveSignInArgs == Args(SignInReq)
WebrtcLiveSignInResult == Result(SignInResp)
WebrtcLiveSelectSignInArgs == Args(SelectSignInReq)
WebrtcLiveSelectSignInResult == Result(SelectSignInResp)
WebrtcLiveDelSignArgs == Args(DelSignInReq)
WebrtcLiveDelSignResult == Result(DelSignInResp)
WebrtcLiveRollCallInRandomArgs == Args(RollCallInRandomReq)
WebrtcLiveRollCallInRandomResult == Result(RollCallInRandomResp)
WebrtcLiveRecordLessonArgs == Args(RecordLessonReq)
WebrtcLiveRecordLessonResult == Result(RecordLessonResp)
WebrtcLiveSaveWhiteBoardJsonArgs == Args(SaveWhiteBoardJsonReq)
WebrtcLiveSaveWhiteBoardJsonResult == Result(SaveWhiteBoardJsonResp)
WebrtcLiveGetWhiteBoardJsonArgs == Args(GetWhiteBoardJsonReq)
WebrtcLiveGetWhiteBoardJsonResult == Result(GetWhiteBoardJsonResp)
WebrtcLivePublishMicArgs == Args(PublishMicReq)
WebrtcLivePublishMicResult == Result(PublishMicResp)
WebrtcLiveRaiseHandArgs == Args(RaiseHandReq)
WebrtcLiveRaiseHandResult == Result(RaiseHandResp)
WebrtcLiveGetRaiseHandArgs == Args(GetRaiseHandReq)
WebrtcLiveGetRaiseHandResult == Result(GetRaiseHandResp)
WebrtcLiveApproveHandArgs == Args(ApproveHandReq)
WebrtcLiveApproveHandResult == Result(ApproveHandResp)
WebrtcLiveViewMicArgs == Args(ViewMicReq)
WebrtcLiveViewMicResult == Result(ViewMicResp)
WebrtcLiveListAllLessonRecordArgs == Args(ListAllLessonRecordReq)
WebrtcLiveListAllLessonRecordResult == Result(ListAllLessonRecordResp)
WebrtcLiveGetLessonRecordArgs == Args(GetLessonRecordReq)
WebrtcLiveGetLessonRecordResult == Result(GetLessonRecordResp)

\* The methods of the service: the types of its arguments and results.
WebrtcLive == {<<WebrtcLiveBroadcastArgs, WebrtcLiveBroadcastResult>>,
    <<WebrtcLiveViewArgs, WebrtcLiveViewResult>>,
    <<WebrtcLiveCreateLessonArgs, WebrtcLiveCreateLessonResult>>,
    <<WebrtcLiveDelLessonArgs, WebrtcLiveDelLessonResult>>,
    <<WebrtcLiveChangeUserInLiveArgs, WebrtcLiveChangeUserInLiveResult>>,
    <<WebrtcLiveChangeUserToLessonArgs, WebrtcLiveChangeUserToLessonResult>>,
    <<WebrtcLiveGetLessonInfoByIdArgs, WebrtcLiveGetLessonInfoByIdResult>>,
    <<WebrtcLiveSelectLessonInfoArgs, WebrtcLiveSelectLessonInfoResult>>,
    <<WebrtcLiveGetLessonInfoArgs, WebrtcLiveGetLessonInfoResult>>,
    <<WebrtcLiveIsStudentInLessonArgs, WebrtcLiveIsStudentInLessonResult>>,
    <<WebrtcLiveCreateSignInArgs, WebrtcLiveCreateSignInResult>>,
    <<WebrtcLiveSignInArgs, WebrtcLiveSignInResult>>,
    <<WebrtcLiveSelectSignInArgs, WebrtcLiveSelectSignInResult>>,
    <<WebrtcLiveDelSignArgs, WebrtcLiveDelSignResult>>,
    <<WebrtcLiveRollCallInRandomArgs, WebrtcLiveRollCallInRandomResult>>,
    <<WebrtcLiveRecordLessonArgs, WebrtcLiveRecordLessonResult>>,
    <<WebrtcLiveSaveWhiteBoardJsonArgs, WebrtcLiveSaveWhiteBoardJsonResult>>,
    <<WebrtcLiveGetWhiteBoardJsonArgs, WebrtcLiveGetWhiteBoardJsonResult>>,
    <<WebrtcLivePublishMicArgs, WebrtcLivePublishMicResult>>,
    <<WebrtcLiveRaiseHandArgs, WebrtcLiveRaiseHandResult>>,
    <<WebrtcLiveGetRaiseHandArgs, WebrtcLiveGetRaiseHandResult>>,
    <<WebrtcLiveApproveHandArgs, WebrtcLiveApproveHandResult>>,
    <<WebrtcLiveViewMicArgs, WebrtcLiveViewMicResult>>,
    <<WebrtcLiveListAllLessonRecordArgs, WebrtcLiveListAllLessonRecordResult>>,
    <<WebrtcLiveGetLessonRecordArgs, WebrtcLiveGetLessonRecordResult>>}
=============================================================================
