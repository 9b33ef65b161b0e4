--------------------------- MODULE MCMacroInstall ---------------------------
(* Configuration roots for the MacroInstall runs: the factory's, one with   *)
(* the GerGo macro, and one with an outdated KAMP file as well.             *)
EXTENDS MacroInstall

Text(ls) == [lines |-> ls, edits |-> 0]
Root(ls, files) ==
    [f \in Files |-> IF f = "printer.cfg" THEN Text(ls)
                     ELSE IF f \in DOMAIN files THEN files[f] ELSE Absent]
MCInitialDisks ==
    { Root(<<"Macro.cfg", "stepper">>, << >>),
      Root(<<"Macro.cfg", "gergo.cfg", "stepper">>, [f \in {"gergo.cfg"} |-> Text(<<"gergo.cfg">>)]),
      Root(<<"Macro.cfg", "kamp.cfg", "gergo.cfg", "stepper">>,
           [f \in {"gergo.cfg", "kamp.cfg"} |-> Text(<<"older">>)]) }
=============================================================================
