----------------------------- MODULE ViewClients -------------------------------
(***************************************************************************)
(* ViewCache and BrowserPush composed: HTTP requests and browser sessions  *)
(* read the same rows, which sessions of agents change at any moment.      *)
(***************************************************************************)
EXTENDS ViewCache, BrowserPush

vars == <<viewVars, cacheVars, browserVars>>

Init == ViewsInit /\ CacheInit /\ BrowserInit

RowsChange(N) == ChangeRows(N) /\ CacheSeesChange /\ UNCHANGED browserVars
HttpStep == CacheNext /\ UNCHANGED browserVars
BrowserStep == BrowserNext /\ UNCHANGED cacheVars

Next == RowsChange(Nodes) \/ HttpStep \/ BrowserStep

Spec == Init /\ [][Next]_vars

TypeOK == ViewsTypeOK /\ CacheTypeOK /\ BrowserTypeOK
================================================================================
