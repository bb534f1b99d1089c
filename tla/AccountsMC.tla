----------------------------- MODULE AccountsMC -----------------------------
(***************************************************************************)
(* The accounts of two users on one browser, and the lists one of them     *)
(* saves.  They share only the id of the user, which every statement of    *)
(* the lists carries: a behaviour is either of the sessions or of the      *)
(* lists, and the other half stays as it began.                            *)
(***************************************************************************)
EXTENDS Sessions, SavedLists, TLC

vars == <<sessionVars, listVars>>

Init == SessionsInit /\ ListsInit
Next ==
  \/ writes = 0 /\ SessionsNext /\ UNCHANGED listVars
  \/ users = {} /\ now = 0 /\ ListsNext /\ UNCHANGED sessionVars
Spec == Init /\ [][Next]_vars

MCOutputs == ("ema" :> 1) @@ ("ichimoku" :> 3)
MCCanonical == ("ema" :> "ema") @@ ("ichimoku" :> "ichimoku") @@ (" EMA " :> "ema")
MCUpper ==
  ("PETR4" :> "PETR4") @@ (" petr4" :> "PETR4") @@ ("VALE3" :> "VALE3") @@ ("ITUB4" :> "ITUB4")
  @@ (" " :> "") @@ ("" :> "")
MCRawBaskets == {<<"PETR4">>, <<"VALE3", " petr4", " ", "PETR4">>, <<"PETR4", "VALE3", "ITUB4">>, <<" ">>}
MCEntry(key, visible, style, colors) ==
  [key |-> key, visible |-> visible, style |-> style, colors |-> colors]
MCRawLayouts ==
  {<<MCEntry(" EMA ", "", "", <<>>), MCEntry("ichimoku", "hidden", "dotted", <<1>>)>>,
   <<MCEntry("ema", "", "", <<>>), MCEntry(" EMA ", "", "solid", <<1>>)>>}
=============================================================================
