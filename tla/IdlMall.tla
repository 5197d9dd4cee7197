------------------------------ MODULE IdlMall ------------------------------
(***************************************************************************)
(* The messages of the mall, inventory and points services, one definition *)
(* per generated struct: its fields in the order FastWriteNocopy writes    *)
(* them.                                                                   *)
(***************************************************************************)
EXTENDS IdlCommon

\* idl/kitex_gen/mall
Product == <<F(1, I64), F(4, I64), F(5, BOOL), F(2, STR), F(3, STR)>>
Order == <<F(2, I64), F(4, I64), F(5, I32), F(6, I64), F(9, I64), F(1, STR),
    F(3, STR), F(7, STR), F(8, STR)>>
ExchangeReq == <<F(1, I64), F(3, I64), F(4, I32), F(2, STR)>>
ExchangeResp == <<F(1, Struct(Resp)), Opt(2, Struct(Order))>>
GetOrderReq == <<F(1, I64), F(2, STR)>>
GetOrderResp == <<F(1, Struct(Resp)), Opt(2, Struct(Order))>>
ListProductsReq == <<F(1, I64)>>
ListProductsResp == <<F(1, Struct(Resp)), F(2, List(Struct(Product)))>>
MallServiceExchangeArgs == Args(ExchangeReq)
MallServiceExchangeResult == Result(ExchangeResp)
MallServiceGetOrderArgs == Args(GetOrderReq)
MallServiceGetOrderResult == Result(GetOrderResp)
MallServiceListProductsArgs == Args(ListProductsReq)
MallServiceListProductsResult == Result(ListProductsResp)

\* The methods of the service: the types of its arguments and results.
MallService == {<<MallServiceExchangeArgs, MallServiceExchangeResult>>,
    <<MallServiceGetOrderArgs, MallServiceGetOrderResult>>,
    <<MallServiceListProductsArgs, MallServiceListProductsResult>>}
\* idl/kitex_gen/mall_inventory
Inventory == <<F(1, I64), F(2, I64), F(3, I64), F(4, I64), F(5, I64)>>
GetInventoryReq == <<F(1, I64)>>
GetInventoryResp == <<F(1, Struct(Resp)), Opt(2, Struct(Inventory))>>
CheckSaleableReq == <<F(1, I64), F(2, I64)>>
CheckSaleableResp == <<F(2, BOOL), F(3, I64), F(1, Struct(Resp))>>
InventoryMutationReq == <<F(2, I64), F(3, I64), F(1, STR)>>
InventoryMutationResp == <<F(1, Struct(Resp)), Opt(2, Struct(Inventory))>>
InventoryServiceGetInventoryArgs == Args(GetInventoryReq)
InventoryServiceGetInventoryResult == Result(GetInventoryResp)
InventoryServiceCheckSaleableArgs == Args(CheckSaleableReq)
InventoryServiceCheckSaleableResult == Result(CheckSaleableResp)
InventoryServiceReserveArgs == Args(InventoryMutationReq)
InventoryServiceReserveResult == Result(InventoryMutationResp)
InventoryServiceReleaseArgs == Args(InventoryMutationReq)
InventoryServiceReleaseResult == Result(InventoryMutationResp)
InventoryServiceConfirmArgs == Args(InventoryMutationReq)
InventoryServiceConfirmResult == Result(InventoryMutationResp)

\* The methods of the service: the types of its arguments and results.
InventoryService == {
    <<InventoryServiceGetInventoryArgs, InventoryServiceGetInventoryResult>>,
    <<InventoryServiceCheckSaleableArgs, InventoryServiceCheckSaleableResult>>,
    <<InventoryServiceReserveArgs, InventoryServiceReserveResult>>,
    <<InventoryServiceReleaseArgs, InventoryServiceReleaseResult>>,
    <<InventoryServiceConfirmArgs, InventoryServiceConfirmResult>>}
\* idl/kitex_gen/mall_points
PointsAccount == <<F(1, I64), F(2, I64), F(3, I64)>>
GetPointsReq == <<F(1, I64)>>
GetPointsResp == <<F(1, Struct(Resp)), Opt(2, Struct(PointsAccount))>>
PointsMutationReq == <<F(2, I64), F(3, I64), F(1, STR)>>
PointsMutationResp == <<F(1, Struct(Resp)), Opt(2, Struct(PointsAccount))>>
PointsServiceGetPointsArgs == Args(GetPointsReq)
PointsServiceGetPointsResult == Result(GetPointsResp)
PointsServiceDebitArgs == Args(PointsMutationReq)
PointsServiceDebitResult == Result(PointsMutationResp)
PointsServiceRefundArgs == Args(PointsMutationReq)
PointsServiceRefundResult == Result(PointsMutationResp)

\* The methods of the service: the types of its arguments and results.
PointsService == {
    <<PointsServiceGetPointsArgs, PointsServiceGetPointsResult>>,
    <<PointsServiceDebitArgs, PointsServiceDebitResult>>,
    <<PointsServiceRefundArgs, PointsServiceRefundResult>>}
=============================================================================
