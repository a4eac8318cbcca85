---------------------------- MODULE MCWechatBridge ----------------------------
(* A small instance of WechatBridge: three notifications about two tasks.   *)
EXTENDS WechatBridge

MCTaskOf == <<"t1", "t2", "t1">>
===============================================================================
