---------------------------- MODULE MCOfflineSync ----------------------------
(* Two tabs of one device, two or three captures for one booking and two names.    *)
EXTENDS OfflineSync
CONSTANTS t1, t2, ann, bob
MCTab == {t1, t2}
MCName == {ann, bob}
MCPlan == {<<"signature", "finalize">>, <<"recipient", "photo", "finalize">>, <<"finalize", "photo">>}
=============================================================================
