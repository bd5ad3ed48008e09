-------------------------- MODULE ProviderRegistry ---------------------------
(***************************************************************************)
(* ProviderRegistry: the providers by name and the order in which their    *)
(* names were first registered. Every member function runs under mu_, so   *)
(* each is one atomic action.                                              *)
(***************************************************************************)
EXTENDS Naturals, Sequences, FiniteSets

CONSTANTS
  Providers,        \* provider objects
  Names,            \* provider names
  NameOf            \* NameOf[p]: what p->name() returns

ASSUME RegistryAssumption == NameOf \in [Providers -> Names]

VARIABLES
  byName,    \* byName_: a function from the registered names to providers
  order      \* order_:  the names, in order of first registration

registryVars == <<byName, order>>

RegistryInit == byName = << >> /\ order = << >>

Insert(f, n, p) == [m \in DOMAIN f \cup {n} |-> IF m = n THEN p ELSE f[m]]
Erase(f, n)     == [m \in DOMAIN f \ {n} |-> f[m]]

\* Mutant of register_provider: an override moves the name to the end.
RegisterMovesToEnd(p) ==
  LET n == NameOf[p]
  IN  /\ byName' = Insert(byName, n, p)
      /\ order'  = Append(SelectSeq(order, LAMBDA m : m # n), n)

\* The last writer of a name wins; a known name keeps its place in the order.
\* (A null pointer is refused and changes nothing.)
register_provider(p) ==
  LET n == NameOf[p]
  IN  /\ byName' = Insert(byName, n, p)
      /\ order'  = IF n \in DOMAIN byName THEN order ELSE Append(order, n)

\* Mutant of unregister: the name stays in order_.
UnregisterKeepsOrder(n) ==
  /\ n \in DOMAIN byName
  /\ byName' = Erase(byName, n)
  /\ UNCHANGED order

\* Mutant of unregister: the entry is reset to null instead of erased.
UnregisterLeavesNull(n) ==
  /\ n \in DOMAIN byName
  /\ byName' = [byName EXCEPT ![n] = "null"]
  /\ UNCHANGED order

\* Refused when the name is unknown. std::remove drops every occurrence of the
\* name; there is exactly one (RegistryConsistent), at position k.
unregister(n) ==
  /\ n \in DOMAIN byName
  /\ byName' = Erase(byName, n)
  /\ order'  = LET k == CHOOSE i \in DOMAIN order : order[i] = n
               IN  [i \in 1..(Len(order) - 1) |->
                      IF i < k THEN order[i] ELSE order[i + 1]]

clear == byName' = << >> /\ order' = << >>

\* all(): the providers in order, names without a provider being skipped: each
\* provider at the position of its name.
all == [i \in {j \in DOMAIN order : order[j] \in DOMAIN byName} |-> byName[order[i]]]

RegistryNext ==
  \/ \E p \in Providers : register_provider(p)
  \/ \E n \in Names : unregister(n)
  \/ clear

RegistrySpec == RegistryInit /\ [][RegistryNext]_registryVars

-----------------------------------------------------------------------------
RegistryTypeOK ==
  /\ DOMAIN byName \subseteq Names
  /\ \A n \in DOMAIN byName : byName[n] \in Providers
  /\ order \in Seq(Names)

\* byName_ and order_ describe the same registrations: each registered name is
\* in the order exactly once, no name lingers, and a provider is filed under
\* its own name.
RegistryConsistent ==
  /\ {order[i] : i \in DOMAIN order} = DOMAIN byName
  /\ \A i, j \in DOMAIN order : order[i] = order[j] => i = j
  /\ \A n \in DOMAIN byName : NameOf[byName[n]] = n

\* registry.hpp: "iteration order is deterministic (registration order)". A
\* step never swaps two names that stay registered: overriding a provider
\* keeps its place.
OrderStable ==
  [][\A i, j \in DOMAIN order : \A k, l \in DOMAIN order' :
       (i < j /\ order'[k] = order[i] /\ order'[l] = order[j]) => k < l]_registryVars
=============================================================================
