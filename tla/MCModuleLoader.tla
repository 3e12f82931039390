--------------------------- MODULE MCModuleLoader ---------------------------
EXTENDS ModuleLoader

CONSTANTS main, a, b, c, old, L0, L1, L2

NoFault == [s \in Specifiers |-> "none"]

Imports(m, x, y, z) ==
  [s \in Specifiers |-> CASE s = main -> m [] s = a -> x [] s = b -> y
                          [] s = c -> z [] OTHER -> {}]

\* old is redirected to b, every other specifier is found under its own name.
Redirect == [s \in Specifiers |-> IF s = old THEN b ELSE s]

\* A diamond, a cycle with self-imports, and imports through the redirect.
Graphs == { Imports({a}, {b, c}, {c}, {}),
            Imports({a, b}, {b}, {a, c}, {c}),
            Imports({old}, {old, b}, {}, {b, old}) }

Faulty(places, faults) ==
  {NoFault} \cup {[NoFault EXCEPT ![s] = f] : s \in places, f \in faults}

\* Programs with at most one fault, where none of the modules awaits, or b, its
\* dependency c, or both do.
FaultyPrograms ==
  [imports : Graphs, fault : Faulty({a, b}, Faults), awaits : {{}}]
  \cup [imports : Graphs, fault : Faulty({b, c}, {"throw"}), awaits : {{b}, {c}, {b, c}}]

=============================================================================
