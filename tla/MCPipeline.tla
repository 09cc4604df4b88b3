----------------------------- MODULE MCPipeline -----------------------------
(* Two neighbours; three library files, two of them the baseline.          *)
EXTENDS Pipeline

Evid(sig, msfa, string, sfr) == [sig |-> sig, msfa |-> msfa, string |-> string, sfr |-> sfr]

FuncDef == {0, 1}
CodeDef ==
  {(0 :> Evid("a", FALSE, TRUE, TRUE)) @@ (1 :> Evid(None, FALSE, TRUE, TRUE)),
   (0 :> Evid("c", TRUE, FALSE, FALSE)) @@ (1 :> Evid("b", TRUE, FALSE, TRUE))}
LibFilesDef == <<"libc", "libm", "r1_libc">>
ContentsDef ==
  [libc |-> {[name |-> "memcpy", sig |-> "a"]},
   libm |-> {[name |-> "sin", sig |-> "b"], [name |-> "sinf", sig |-> "b"]},
   r1_libc |-> {[name |-> "abs", sig |-> "b"], [name |-> "sin", sig |-> "c"]}]
BaselineDef == {"libc", "libm"}
MathDef == {"libm"}
NameOrderDef == <<"abs", "memcpy", "sin", "sinf">>
=============================================================================
