--------------------------------- MODULE Site ---------------------------------
(***************************************************************************)
(* The server processes of Server and the visitors of WebPages together:   *)
(* a page is served by whichever process gets the request, which is why a  *)
(* session must be in the cookie and not in a process.                     *)
(*                                                                         *)
(* Bound of the model: pages are visited while every process serves, none  *)
(* has failed so far, the first of them has migrated everything and no     *)
(* login was tried; the processes do nothing else while pages are visited. *)
(***************************************************************************)
EXTENDS Server, WebPages

Settled ==
    /\ \A p \in Processes : phase[p] = "serving"
    /\ faults = 0
    /\ \A p \in Processes : known[p] = ledger
    /\ \E p \in Processes : \A q \in Processes \ {p} : current[q] = 0
    /\ entry = [p \in Processes |-> [i \in Ips |-> NoEntry]]
    /\ login = [c \in Clients |-> Idle]
    /\ recent = [p \in Processes |-> NoAdmission]

SiteInit == Init /\ WInit

SiteNext == \/ Next /\ WInit /\ UNCHANGED wvars
            \/ Settled /\ WNext /\ UNCHANGED vars

SiteSpec ==
    /\ SiteInit /\ [][SiteNext]_<<vars, wvars>>
    /\ \A p \in Processes : WF_vars(Step(p) /\ UNCHANGED lvars)
    /\ \A t \in Tabs : WF_wvars(Serve(t) \/ IssueToken(t) \/ Receive(t))
=============================================================================
