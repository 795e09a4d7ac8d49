---------------------------- MODULE MCBackground ----------------------------
(* The work that goes on without a request: the chain of scans and its       *)
(* watchdog (ScanChain) and the mails (MailOutbox).  A behaviour plays one   *)
(* scene; the other module stands still.                                     *)
EXTENDS ScanChain, MailOutbox, TLC

CONSTANTS w1, w2, d1, d2

VARIABLE scene

(* the clock of w1 is slow, that of w2 fast *)
MCSkew == [w \in Scanner |-> IF w = w1 THEN -1 ELSE 1]

(* no mail repeats another *)
MCNone == [d \in Deliveries |-> NoDelivery]

(* d2 stands for the repetition of d1: its manual resend or its business retry *)
MCNewer == [d \in Deliveries |-> IF d = d1 /\ d2 \in Deliveries THEN d2 ELSE NoDelivery]

backgroundVars == <<chainVars, vars, scene>>

(* the chain at rest: its time is over, only the next bucket waits *)
AtRest == LET next == Bucket(Horizon + Skew[w2]) + 1
          IN /\ now = Horizon /\ phase = [w \in Scanner |-> "idle"]
             /\ taken = [w \in Scanner |-> 0] /\ seen = [w \in Scanner |-> 0]
             /\ job = [b \in Bucket(Horizon + Skew[w1]) .. next |->
                          IF b = next THEN BucketRow("pending", 0, BucketStart(b)) ELSE Closed("succeeded")]

-----------------------------------------------------------------------------
(* The scene "chain", and the scene "mail": one mail with the backstop that  *)
(* such a scan plans for it, attempts that keep to their lease.              *)

BackgroundInit ==
    /\ Init
    /\ \/ scene = "chain" /\ ChainInit
       \/ scene = "mail" /\ AtRest
BackgroundNext ==
    /\ UNCHANGED scene
    /\ \/ scene = "chain" /\ ChainNext /\ UNCHANGED vars
       \/ scene = "mail" /\ Next /\ UNCHANGED chainVars
(* where a module stands still, none of the actions its fairness is about    *)
(* is enabled                                                                *)
BackgroundSpec ==
    BackgroundInit /\ [][BackgroundNext]_backgroundVars /\ ChainFairness /\ Fairness

-----------------------------------------------------------------------------
(* The scene "race": one mail, two workers, attempts that may outlive the    *)
(* lease of their job.  The scene "again": a mail and its repetition, one    *)
(* worker that does not die: any statement of its attempt may fail instead.  *)

Survives(w) == ~Crash(w) /\ \A k \in Keys : ~JobReclaimed(k)
MailInit == Init /\ AtRest /\ scene \in {"race", "again"}
MailNext ==
    /\ Next /\ UNCHANGED <<scene, chainVars>>
    /\ \/ scene = "race" /\ mail'[d2] = mail[d2]
       \/ scene = "again" /\ pc'[w2] = "idle" /\ Survives(w1)
MailSpec == MailInit /\ [][MailNext]_backgroundVars
=============================================================================
