----------------------------- MODULE MCRpcCall -----------------------------
(***************************************************************************)
(* RpcCall over every method of the services of the repository.            *)
(***************************************************************************)
EXTENDS RpcCall, IdlUser, IdlQuiz, IdlChat, IdlAgent, IdlMall, IdlLive

AllMethods ==
    UserService \cup QuizService \cup ChatService \cup AgentService
      \cup MallService \cup InventoryService \cup PointsService \cup WebrtcLive
=============================================================================
