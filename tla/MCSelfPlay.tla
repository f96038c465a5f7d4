------------------------------- MODULE MCSelfPlay -------------------------------
(* Finite instances of SelfPlay. *)
EXTENDS SelfPlay, TLC

CONSTANTS a, b, c

\* Two runs use the default base of policy ids.
SharedBase == [r \in Runs |-> IF r = c THEN "own" ELSE "selfplay"]

Fixed == {[games |-> 1, evals |-> 1]}
Varied == Fixed \cup {[games |-> 2, evals |-> 3], [games |-> 2, evals |-> 0]}

Setting(mode, goals, managed, crashes, commands, sizes) ==
  [mode |-> [r \in Runs |-> mode], goal |-> a :> goals[1] @@ b :> goals[2] @@ c :> 0,
   managed |-> managed, archiver |-> FALSE, crashes |-> crashes, commands |-> commands,
   sizes |-> sizes]

Beside(goals, crashes, commands) ==
  [mode |-> [r \in Runs |-> "promote"], goal |-> a :> goals[1] @@ b :> 0 @@ c :> goals[2],
   managed |-> TRUE, archiver |-> TRUE, crashes |-> crashes, commands |-> commands,
   sizes |-> Fixed]

\* One run of each mode that is resumed, with other sizes; two runs that promote, of which
\* one may die; a run that an operator promotes from; runs beside an archiver.
Resumed == {Setting(mode, <<3, 0>>, FALSE, 2, 0, Varied) : mode \in {"gate", "promote"}}
Measured == {Setting("always", <<3, 0>>, FALSE, 1, 0, Varied)}
Rivals == {Setting("promote", <<2, 1>>, TRUE, 1, 0, Fixed),
           Setting("promote", <<2, 2>>, TRUE, 0, 0, Fixed)}
Commanded == {Setting(mode, <<3, 0>>, managed, 1, 1, Fixed) :
                mode \in {"promote", "gate"}, managed \in BOOLEAN}
Archiving == {Beside(<<5, 0>>, 0, 0), Beside(<<4, 0>>, 1, 0), Beside(<<3, 1>>, 0, 0),
              Beside(<<3, 0>>, 0, 1),
              [Beside(<<3, 0>>, 1, 2) EXCEPT !.mode = [r \in Runs |-> "gate"]]}

AllSites == Resumed \cup Measured \cup Rivals \cup Commanded \cup Archiving
================================================================================
