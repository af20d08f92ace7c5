------------------------------ MODULE MCCiFull ------------------------------
(* The instances of CiFull that TLC checks.                                *)
EXTENDS CiFull

\* Every kind of step of build-and-test, in the order of the workflow (the
\* busybox-musl lane runs on riscv32).
AllSteps == <<"build", "dejagnu", "csibe", "coremark", "multilib", "density",
              "sh-elf", "run-sh-sim", "sh-sim", "lra", "busybox", "musl">>

\* One architecture with an install check (x86 is like arm) and one without.
TwoArchs == <<<<"arm", "csibe">>, <<"arm", "busybox">>, <<"riscv32", "busybox-musl">>>>

\* The shortest run: one sh4 lane that fails hard, one that skips.
FewSteps == <<"build", "dejagnu", "busybox">>

NoPoints == {}

OneArch == <<<<"riscv32", "busybox-musl">>>>

\* Names of before the suffixes, and of the time riscv32 got a second one.
OldPoints == {[run |-> 0, name |-> [lane |-> "busybox", sfx |-> <<>>], val |-> "value"],
              [run |-> 0, name |-> [lane |-> "busybox-musl", sfx |-> <<"riscv32", "sh4">>],
               val |-> "value"]}

=============================================================================
