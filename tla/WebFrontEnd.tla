---------------------------- MODULE WebFrontEnd ----------------------------
(***************************************************************************)
(* The web front end: the pages of one browser, open side by side, over    *)
(* one registry and one local storage.  A step is a step of one page, of   *)
(* the registry, or of other people.                                       *)
(***************************************************************************)
EXTENDS RegisterPage, AgentPages, DemoPage

vars == <<browserVars, regVars, pagesVars, demoVars>>

Init == BrowserInit /\ RegInit /\ PagesInit /\ DemoInit

Next ==
  \/ RegisterNext /\ UNCHANGED <<pagesVars, demoVars>>
  \/ PagesNext /\ UNCHANGED <<regVars, demoVars>>
  \/ DemoNext /\ UNCHANGED <<regVars, pagesVars>>
  \/ (ProofArrives \/ OthersRegister \/ OthersDeregister)
       /\ UNCHANGED <<regVars, pagesVars, demoVars>>
  \/ (OthersAsk \/ Forget) /\ UNCHANGED <<browserVars, regVars, pagesVars, demo>>

Spec == Init /\ [][Next]_vars
===============================================================================
