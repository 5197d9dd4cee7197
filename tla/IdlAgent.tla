----------------------------- MODULE IdlAgent -----------------------------
(***************************************************************************)
(* The messages of the agent service, one definition per generated struct: *)
(* its fields in the order FastWriteNocopy writes them.                    *)
(***************************************************************************)
EXTENDS IdlCommon

\* idl/kitex_gen/agent
ChatWithAgentReq == <<F(1, I64), F(5, I64), F(2, STR), F(3, STR), F(4, STR)>>
ChatWithAgentResp == <<F(1, Struct(Resp))>>
ListAllUserConvReq == <<F(1, I64)>>
ListAllUserConvResp == <<F(1, Struct(Resp))>>
DelAllUserConvReq == <<F(1, I64), F(2, STR)>>
DelAllUserConvResp == <<F(1, Struct(Resp))>>
AgentServiceChatWithAgentArgs == Args(ChatWithAgentReq)
AgentServiceChatWithAgentResult == Result(ChatWithAgentResp)
AgentServiceListAllUserConvArgs == Args(ListAllUserConvReq)
AgentServiceListAllUserConvResult == Result(ListAllUserConvResp)
AgentServiceDelAllUserConvArgs == Args(DelAllUserConvReq)
AgentServiceDelAllUserConvResult == Result(DelAllUserConvResp)

\* The methods of the service: the types of its arguments and results.
AgentService == {
    <<AgentServiceChatWithAgentArgs, AgentServiceChatWithAgentResult>>,
    <<AgentServiceListAllUserConvArgs, AgentServiceListAllUserConvResult>>,
    <<AgentServiceDelAllUserConvArgs, AgentServiceDelAllUserConvResult>>}
=============================================================================
