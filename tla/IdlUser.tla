------------------------------ MODULE IdlUser ------------------------------
(***************************************************************************)
(* The messages of the user service, one definition per generated struct:  *)
(* its fields in the order FastWriteNocopy writes them.                    *)
(***************************************************************************)
EXTENDS IdlCommon

\* idl/kitex_gen/user
RegisterReq == <<F(1, STR), F(2, STR), F(3, STR)>>
RegisterResp == <<F(1, Struct(Resp))>>
LoginReq == <<F(1, STR), F(2, STR), F(3, STR)>>
LoginResp == <<F(1, Struct(Resp))>>
GetUserInfoReq == <<F(1, I64)>>
GetUserInfoResp == <<F(1, Struct(Resp))>>
GetUserInfoByNameReq == <<F(1, STR)>>
GetUserInfoByNameResp == <<F(1, Struct(Resp))>>
UserServiceRegisterArgs == Args(RegisterReq)
UserServiceRegisterResult == Result(RegisterResp)
UserServiceLoginArgs == Args(LoginReq)
UserServiceLoginResult == Result(LoginResp)
UserServiceGetUserInfoArgs == Args(GetUserInfoReq)
UserServiceGetUserInfoResult == Result(GetUserInfoResp)
UserServiceGetUserInfoBynameArgs == Args(GetUserInfoByNameReq)
UserServiceGetUserInfoBynameResult == Result(GetUserInfoByNameResp)

\* The methods of the service: the types of its arguments and results.
UserService == {<<UserServiceRegisterArgs, UserServiceRegisterResult>>,
    <<UserServiceLoginArgs, UserServiceLoginResult>>,
    <<UserServiceGetUserInfoArgs, UserServiceGetUserInfoResult>>,
    <<UserServiceGetUserInfoBynameArgs, UserServiceGetUserInfoBynameResult>>}
=============================================================================
