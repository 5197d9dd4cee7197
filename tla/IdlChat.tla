------------------------------ MODULE IdlChat ------------------------------
(***************************************************************************)
(* The messages of the chat service, one definition per generated struct:  *)
(* its fields in the order FastWriteNocopy writes them.                    *)
(***************************************************************************)
EXTENDS IdlCommon

\* idl/kitex_gen/chat
LiveChatReq == <<F(1, I64), F(2, I64), F(3, STR), Opt(4, STR)>>
LiveChatResp == <<F(1, Struct(Resp)), Opt(2, STR), Opt(3, STR)>>
GetHistoryReq == <<F(1, I64), F(2, I64), Opt(4, I32), Opt(3, STR),
    Opt(5, STR)>>
GetHistoryResp == <<Opt(3, BOOL), F(1, Struct(Resp)), Opt(2, STR)>>
DelHistoryReq == <<F(1, I64), F(2, I64)>>
DelHistoryResp == <<F(1, Struct(Resp))>>
ChatServiceLiveChatArgs == Args(LiveChatReq)
ChatServiceLiveChatResult == Result(LiveChatResp)
ChatServiceGetHistoryArgs == Args(GetHistoryReq)
ChatServiceGetHistoryResult == Result(GetHistoryResp)
ChatServiceDelHistoryArgs == Args(DelHistoryReq)
ChatServiceDelHistoryResult == Result(DelHistoryResp)

\* The methods of the service: the types of its arguments and results.
ChatService == {<<ChatServiceLiveChatArgs, ChatServiceLiveChatResult>>,
    <<ChatServiceGetHistoryArgs, ChatServiceGetHistoryResult>>,
    <<ChatServiceDelHistoryArgs, ChatServiceDelHistoryResult>>}
=============================================================================
