--------------------------- MODULE RegistryProofs ---------------------------
(***************************************************************************)
(* Proofs about ModelRegistry: typing, that the reference counts and the   *)
(* provider-specific information are what the clients' lists say, that the *)
(* cached listing is current, and that a rebound client starts afresh.     *)
(* Proofs about AuthRegistration: conductor, registry and scheduler agree  *)
(* on a credential at rest, and a removed one is served for no model.      *)
(***************************************************************************)
EXTENDS ModelRegistry, AuthRegistration, FiniteSetTheorems, TLAPS

(***************************************************************************)
(* Totals of a function into 0..MaxMult, as cardinalities of slot sets.    *)
(***************************************************************************)
SlotsOf(f) == {s \in Clients \X (1 .. MaxMult) : s[2] <= f[s[1]]}
SlotsBut(f, c) == {s \in SlotsOf(f) : s[1] # c}
Column(c, n) == {c} \X (1 .. n)

\* A column of n slots has n elements.
LEMMA ColumnSize ==
  ASSUME NEW c, NEW n \in Nat
  PROVE  IsFiniteSet(Column(c, n)) /\ Cardinality(Column(c, n)) = n
<1>1. IsFiniteSet({c}) /\ Cardinality({c}) = 1
  BY FS_Singleton
<1>2. IsFiniteSet(1 .. n) /\ Cardinality(1 .. n) = n
  BY FS_Interval
<1>3. /\ IsFiniteSet({c} \X (1 .. n))
      /\ Cardinality({c} \X (1 .. n)) = Cardinality({c}) * Cardinality(1 .. n)
  BY <1>1, <1>2, FS_Product, Zenon
<1>4. QED
  BY <1>1, <1>2, <1>3 DEF Column

\* The slots of f are those of the other clients and one column for c.
LEMMA SlotsSplit ==
  ASSUME NEW f \in [Clients -> 0 .. MaxMult], NEW c \in Clients
  PROVE  /\ SlotsOf(f) = SlotsBut(f, c) \cup Column(c, f[c])
         /\ SlotsBut(f, c) \cap Column(c, f[c]) = {}
         /\ IsFiniteSet(SlotsBut(f, c))
         /\ IsFiniteSet(SlotsOf(f))
<1> USE ConstantsAssumption
<1>1. SlotsOf(f) = SlotsBut(f, c) \cup Column(c, f[c])
  BY DEF SlotsOf, SlotsBut, Column
<1>2. SlotsBut(f, c) \cap Column(c, f[c]) = {}
  BY DEF SlotsBut, Column
<1>3. IsFiniteSet(Clients \X (1 .. MaxMult))
  <2>1. IsFiniteSet(1 .. MaxMult)
    BY FS_Interval
  <2>2. QED
    BY <2>1, FS_Product, Zenon
<1>4. IsFiniteSet(SlotsOf(f)) /\ IsFiniteSet(SlotsBut(f, c))
  BY <1>3, FS_Subset DEF SlotsOf, SlotsBut
<1>5. QED
  BY <1>1, <1>2, <1>4

LEMMA SlotsSize ==
  ASSUME NEW f \in [Clients -> 0 .. MaxMult], NEW c \in Clients
  PROVE  /\ Cardinality(SlotsOf(f)) = Cardinality(SlotsBut(f, c)) + f[c]
         /\ Cardinality(SlotsBut(f, c)) \in Nat
         /\ Cardinality(SlotsOf(f)) \in Nat
<1> USE ConstantsAssumption
<1>1. f[c] \in Nat
  OBVIOUS
<1>2. IsFiniteSet(Column(c, f[c])) /\ Cardinality(Column(c, f[c])) = f[c]
  BY <1>1, ColumnSize
<1>3. Cardinality(SlotsBut(f, c) \cap Column(c, f[c])) = 0
  BY SlotsSplit, FS_EmptySet
<1>4. Cardinality(SlotsBut(f, c)) \in Nat /\ Cardinality(SlotsOf(f)) \in Nat
  BY SlotsSplit, FS_CardinalityType
<1>5. Cardinality(SlotsBut(f, c) \cup Column(c, f[c]))
        = Cardinality(SlotsBut(f, c)) + f[c] - 0
  BY <1>1, <1>2, <1>3, <1>4, SlotsSplit, FS_Union
<1>6. SlotsOf(f) = SlotsBut(f, c) \cup Column(c, f[c])
  BY SlotsSplit
<1>7. QED
  BY <1>1, <1>4, <1>5, <1>6

\* Changing f at c alone changes the total by the difference at c.
LEMMA SlotsUpdate ==
  ASSUME NEW f \in [Clients -> 0 .. MaxMult], NEW c \in Clients,
         NEW g \in [Clients -> 0 .. MaxMult],
         \A d \in Clients \ {c} : g[d] = f[d]
  PROVE  /\ Cardinality(SlotsOf(g)) = Cardinality(SlotsOf(f)) - f[c] + g[c]
         /\ f[c] <= Cardinality(SlotsOf(f))
<1> USE ConstantsAssumption
<1>1. SlotsBut(g, c) = SlotsBut(f, c)
  BY DEF SlotsBut, SlotsOf
<1>2. QED
  BY <1>1, SlotsSize

(***************************************************************************)
(* What the helpers do to one registration.  Share(q, p, n) is what n      *)
(* occurrences under provider p contribute to provider q.                  *)
(***************************************************************************)
Share(q, p, n) == IF q = p THEN n ELSE 0
OwnInfo(r) == r.info = {q \in Providers : r.prov[q] > 0}

LEMMA NoRegFacts ==
  /\ NoReg \in Registration
  /\ NoReg.count = 0
  /\ \A q \in Providers : NoReg.prov[q] = 0
  /\ OwnInfo(NoReg)
<1> USE ConstantsAssumption
<1>1. NoReg \in Registration
  BY DEF NoReg, Registration, NoTime, Reasons
<1>2. NoReg.count = 0 /\ (\A q \in Providers : NoReg.prov[q] = 0) /\ NoReg.info = {}
  BY DEF NoReg
<1>3. QED
  BY <1>1, <1>2 DEF OwnInfo

LEMMA LeaveProviderFacts ==
  ASSUME NEW r \in Registration, NEW p \in ProvidersOrNone, NEW n \in Nat,
         \A q \in Providers : Share(q, p, n) <= r.prov[q]
  PROVE  LET s == LeaveProvider(r, p, n)
         IN  /\ s \in Registration
             /\ s.count = r.count
             /\ \A q \in Providers : s.prov[q] = r.prov[q] - Share(q, p, n)
             /\ OwnInfo(r) => OwnInfo(s)
<1> DEFINE s == LeaveProvider(r, p, n)
<1> USE ConstantsAssumption
<1>1. /\ r.count \in Nat /\ r.prov \in [Providers -> Nat] /\ r.info \in SUBSET Providers
  BY DEF Registration
<1>2. /\ s.count = r.count
      /\ s.quota = r.quota
      /\ s.susp = r.susp
      /\ s.prov = [q \in Providers |-> IF q = p THEN Monus(r.prov[q], n) ELSE r.prov[q]]
      /\ s.info = IF p \in Providers /\ r.prov[p] \in 1 .. n THEN r.info \ {p} ELSE r.info
  BY DEF LeaveProvider, Registration
<1>3. \A q \in Providers : s.prov[q] = r.prov[q] - Share(q, p, n) /\ s.prov[q] \in Nat
  BY <1>1, <1>2 DEF Monus, Share
<1>4. s \in Registration
  <2>1. s.prov \in [Providers -> Nat]
    BY <1>2, <1>3
  <2>2. s.info \in SUBSET Providers
    BY <1>1, <1>2
  <2>3. QED
    BY <2>1, <2>2, <1>1 DEF LeaveProvider, Registration
<1>5. ASSUME OwnInfo(r) PROVE OwnInfo(s)
  <2>1. CASE p \in Providers /\ r.prov[p] \in 1 .. n
    <3>1. r.prov[p] = n /\ s.prov[p] = 0
      BY <2>1, <1>1, <1>3 DEF Share
    <3>2. QED
      BY <2>1, <3>1, <1>1, <1>2, <1>3, <1>5 DEF OwnInfo, Share
  <2>2. CASE ~(p \in Providers /\ r.prov[p] \in 1 .. n)
    <3>1. \A q \in Providers : s.prov[q] > 0 <=> r.prov[q] > 0
      BY <2>2, <1>1, <1>3 DEF Share
    <3>2. QED
      BY <2>2, <3>1, <1>2, <1>5 DEF OwnInfo
  <2>3. QED
    BY <2>1, <2>2
<1>6. QED
  BY <1>2, <1>3, <1>4, <1>5

LEMMA AddRegistrationFacts ==
  ASSUME NEW r \in Registration, NEW p \in ProvidersOrNone, NEW n \in Nat
  PROVE  LET s == AddRegistration(r, p, n)
         IN  /\ s \in Registration
             /\ s.count = r.count + n
             /\ \A q \in Providers : s.prov[q] = r.prov[q] + Share(q, p, n)
             /\ OwnInfo(r) => OwnInfo(s)
<1> DEFINE s == AddRegistration(r, p, n)
<1> USE ConstantsAssumption
<1>1. /\ r.count \in Nat /\ r.prov \in [Providers -> Nat] /\ r.info \in SUBSET Providers
  BY DEF Registration
<1>2. /\ s.count = r.count + n
      /\ s.prov = [q \in Providers |-> IF q = p THEN r.prov[q] + n ELSE r.prov[q]]
      /\ s.info = IF n > 0 THEN r.info \cup ({p} \cap Providers) ELSE r.info
  BY DEF AddRegistration, Registration
<1>3. \A q \in Providers : s.prov[q] = r.prov[q] + Share(q, p, n) /\ s.prov[q] \in Nat
  BY <1>1, <1>2 DEF Share
<1>4. s \in Registration
  <2>1. s.prov \in [Providers -> Nat] /\ s.count \in Nat
    BY <1>1, <1>2, <1>3
  <2>2. s.info \in SUBSET Providers
    BY <1>1, <1>2
  <2>3. QED
    BY <2>1, <2>2, <1>1 DEF AddRegistration, Registration
<1>5. ASSUME OwnInfo(r) PROVE OwnInfo(s)
  <2>1. \A q \in Providers : s.prov[q] > 0 <=> r.prov[q] > 0 \/ (q = p /\ n > 0)
    BY <1>1, <1>3 DEF Share
  <2>2. QED
    BY <2>1, <1>1, <1>2, <1>5 DEF OwnInfo
<1>6. QED
  BY <1>2, <1>3, <1>4, <1>5

\* Removing the last occurrences leaves nothing of the registration, which is
\* right as long as no other provider has an occurrence left.
LEMMA RemoveRegistrationFacts ==
  ASSUME NEW r \in Registration, NEW c \in Clients, NEW p \in ProvidersOrNone,
         NEW n \in Nat, n <= r.count,
         \A q \in Providers : Share(q, p, n) <= r.prov[q],
         n = r.count => \A q \in Providers : r.prov[q] = Share(q, p, n)
  PROVE  LET s == RemoveRegistration(r, c, p, n)
         IN  /\ s \in Registration
             /\ s.count = r.count - n
             /\ \A q \in Providers : s.prov[q] = r.prov[q] - Share(q, p, n)
             /\ OwnInfo(r) => OwnInfo(s)
<1> DEFINE s == RemoveRegistration(r, c, p, n)
           t == LeaveProvider(r, p, n)
<1> USE ConstantsAssumption
<1>1. /\ r.count \in Nat /\ r.prov \in [Providers -> Nat] /\ r.info \in SUBSET Providers
  BY DEF Registration
<1>2. CASE n = 0
  <2>1. s = r
    BY <1>2 DEF RemoveRegistration
  <2>2. QED
    BY <2>1, <1>1, <1>2 DEF Share
<1>3. CASE n # 0 /\ r.count <= n
  <2>1. s = NoReg /\ r.count = n
    BY <1>1, <1>3 DEF RemoveRegistration
  <2>2. \A q \in Providers : r.prov[q] - Share(q, p, n) = 0
    BY <2>1, <1>1 DEF Share
  <2>3. QED
    BY <2>1, <2>2, <1>1, NoRegFacts
<1>4. CASE n # 0 /\ ~(r.count <= n)
  <2>1. /\ t \in Registration
        /\ t.count = r.count
        /\ \A q \in Providers : t.prov[q] = r.prov[q] - Share(q, p, n)
        /\ OwnInfo(r) => OwnInfo(t)
    BY LeaveProviderFacts
  <2>2. s = [t EXCEPT !.count = r.count - n, !.quota[c] = NoTime, !.susp[c] = "none"]
    BY <1>4 DEF RemoveRegistration
  <2>3. s.count = r.count - n /\ s.prov = t.prov /\ s.info = t.info
    BY <2>1, <2>2 DEF Registration
  <2>4. s \in Registration
    <3>1. r.count - n \in Nat
      BY <1>1, <1>4
    <3>2. /\ [t.quota EXCEPT ![c] = NoTime] \in [Clients -> Time \cup {NoTime}]
          /\ [t.susp EXCEPT ![c] = "none"] \in [Clients -> Reasons]
      BY <2>1 DEF Registration, Reasons
    <3>3. s = [count |-> r.count - n, prov |-> t.prov, info |-> t.info,
               quota |-> [t.quota EXCEPT ![c] = NoTime],
               susp |-> [t.susp EXCEPT ![c] = "none"]]
      BY <2>1, <2>2 DEF Registration
    <3>4. QED
      BY <3>1, <3>2, <3>3, <2>1 DEF Registration
  <2>5. QED
    BY <2>1, <2>3, <2>4 DEF OwnInfo
<1>5. QED
  BY <1>2, <1>3, <1>4

\* The moved overlap and its return under the new provider.
Overlap(p0, p1, old, new) == IF p0 # p1 THEN Least(old, new) ELSE 0

LEMMA MoveOverlapFacts ==
  ASSUME NEW r \in Registration,
         NEW p0 \in ProvidersOrNone, NEW p1 \in ProvidersOrNone,
         NEW old \in Nat, NEW new \in Nat,
         \A q \in Providers : Share(q, p0, old) <= r.prov[q]
  PROVE  LET s == MoveOverlap(r, p0, p1, old, new)
         IN  /\ s \in Registration
             /\ s.count = r.count
             /\ \A q \in Providers :
                  s.prov[q] = r.prov[q] - Share(q, p0, Overlap(p0, p1, old, new))
             /\ OwnInfo(r) => OwnInfo(s)
<1> DEFINE s == MoveOverlap(r, p0, p1, old, new)
           n == Least(old, new)
<1> USE ConstantsAssumption
<1>1. r.count \in Nat /\ r.prov \in [Providers -> Nat]
  BY DEF Registration
<1>2. n \in Nat /\ n <= old
  BY DEF Least
<1>3. \A q \in Providers : Share(q, p0, n) <= r.prov[q]
  BY <1>1, <1>2 DEF Share
<1>4. CASE p0 # p1 /\ p0 # NoProvider /\ new > 0 /\ old > 0
  <2>1. s = LeaveProvider(r, p0, n) /\ Overlap(p0, p1, old, new) = n
    BY <1>4 DEF MoveOverlap, Overlap
  <2>2. QED
    BY <2>1, <1>2, <1>3, LeaveProviderFacts
<1>5. CASE ~(p0 # p1 /\ p0 # NoProvider /\ new > 0 /\ old > 0)
  <2>1. s = r
    BY <1>5 DEF MoveOverlap
  <2>2. \A q \in Providers : Share(q, p0, Overlap(p0, p1, old, new)) = 0
    BY <1>5 DEF Share, Overlap, Least
  <2>3. QED
    BY <2>1, <2>2, <1>1
<1>6. QED
  BY <1>4, <1>5

LEMMA RefreshBindingFacts ==
  ASSUME NEW r \in Registration, NEW c \in Clients,
         NEW p0 \in ProvidersOrNone, NEW p1 \in ProvidersOrNone,
         NEW old \in Nat, NEW new \in Nat,
         r.count >= new,
         p0 = p1 => \A q \in Providers : Share(q, p1, new) <= r.prov[q],
         p0 # p1 => \A q \in Providers :
                      Share(q, p1, Monus(new, old)) <= r.prov[q]
  PROVE  LET s == RefreshBinding(r, c, p0, p1, old, new)
         IN  /\ s \in Registration
             /\ s.count = r.count
             /\ \A q \in Providers :
                  s.prov[q] = r.prov[q] + Share(q, p1, Overlap(p0, p1, old, new))
             /\ OwnInfo(r) => OwnInfo(s)
<1> DEFINE s == RefreshBinding(r, c, p0, p1, old, new)
           n == Overlap(p0, p1, old, new)
<1> USE ConstantsAssumption
<1>1. /\ r.count \in Nat /\ r.prov \in [Providers -> Nat] /\ r.info \in SUBSET Providers
  BY DEF Registration
<1>2. n \in Nat
  BY DEF Overlap, Least
<1>3. CASE new = 0
  <2>1. s = r /\ n = 0
    BY <1>3 DEF RefreshBinding, Overlap, Least
  <2>2. QED
    BY <2>1, <1>1 DEF Share
<1>4. CASE new # 0
  <2>1. s = [r EXCEPT !.info = r.info \cup ({p1} \cap Providers),
                      !.quota[c] = NoTime,
                      !.susp[c] = "none",
                      !.prov = [q \in Providers |->
                                  IF q = p1 /\ p0 # p1
                                  THEN r.prov[q] + Least(old, new) ELSE r.prov[q]]]
    BY <1>1, <1>4 DEF RefreshBinding
  <2>2. /\ s.count = r.count
        /\ s.info = r.info \cup ({p1} \cap Providers)
        /\ s.prov = [q \in Providers |-> IF q = p1 /\ p0 # p1
                                         THEN r.prov[q] + Least(old, new) ELSE r.prov[q]]
    BY <2>1 DEF Registration
  <2>3. \A q \in Providers : s.prov[q] = r.prov[q] + Share(q, p1, n) /\ s.prov[q] \in Nat
    BY <2>2, <1>1, <1>2 DEF Share, Overlap
  <2>4. s \in Registration
    <3>1. s.prov \in [Providers -> Nat] /\ s.info \in SUBSET Providers
      BY <2>2, <2>3, <1>1
    <3>2. /\ [r.quota EXCEPT ![c] = NoTime] \in [Clients -> Time \cup {NoTime}]
          /\ [r.susp EXCEPT ![c] = "none"] \in [Clients -> Reasons]
      BY DEF Registration, Reasons
    <3>3. s = [count |-> r.count, prov |-> s.prov, info |-> s.info,
               quota |-> [r.quota EXCEPT ![c] = NoTime],
               susp |-> [r.susp EXCEPT ![c] = "none"]]
      BY <2>1, <2>2 DEF Registration
    <3>4. QED
      BY <3>1, <3>2, <3>3, <1>1 DEF Registration
  <2>5. p1 \in Providers => s.prov[p1] > 0
    BY <2>3, <1>1, <1>4 DEF Share, Overlap, Least, Monus
  <2>6. ASSUME OwnInfo(r) PROVE OwnInfo(s)
    <3>1. \A q \in Providers : q # p1 => s.prov[q] = r.prov[q]
      BY <2>3, <1>1 DEF Share
    <3>2. QED
      BY <3>1, <2>2, <2>5, <2>6, <1>1 DEF OwnInfo
  <2>7. QED
    BY <2>2, <2>3, <2>4, <2>6
<1>5. QED
  BY <1>3, <1>4

\* The whole reconcile path for one model: the old occurrences leave the old
\* provider and the new ones arrive under the new provider.
\* The loops of the reconcile path before the binding is refreshed.
LEMMA ReconcileParts ==
  ASSUME NEW r \in Registration, NEW c \in Clients,
         NEW p0 \in ProvidersOrNone, NEW p1 \in ProvidersOrNone,
         NEW old \in Nat, NEW new \in Nat, old <= r.count,
         \A q \in Providers : Share(q, p0, old) <= r.prov[q],
         old = r.count => \A q \in Providers : r.prov[q] = Share(q, p0, old)
  PROVE  LET moved == MoveOverlap(r, p0, p1, old, new)
             removed == RemoveRegistration(moved, c, p0, Monus(old, new))
             added == AddRegistration(removed, p1, Monus(new, old))
         IN  /\ moved \in Registration /\ removed \in Registration
             /\ added \in Registration
             /\ added.count = r.count - old + new
             /\ \A q \in Providers : added.prov[q] =
                  r.prov[q] - Share(q, p0, Overlap(p0, p1, old, new) + Monus(old, new))
                            + Share(q, p1, Monus(new, old))
             /\ OwnInfo(r) => OwnInfo(added)
<1> DEFINE less == Monus(old, new)
           more == Monus(new, old)
           n == Overlap(p0, p1, old, new)
           moved == MoveOverlap(r, p0, p1, old, new)
           removed == RemoveRegistration(moved, c, p0, less)
           added == AddRegistration(removed, p1, more)
<1> USE ConstantsAssumption
<1>1. r.count \in Nat /\ r.prov \in [Providers -> Nat]
  BY DEF Registration
<1>2. /\ less \in Nat /\ more \in Nat /\ n \in Nat
      /\ less - more = old - new
      /\ p0 # p1 => n + less = old /\ n + more = new
      /\ p0 = p1 => n = 0
      /\ n + less <= old
      /\ more <= new
  BY DEF Monus, Overlap, Least
<1>3. /\ moved \in Registration
      /\ moved.count = r.count
      /\ \A q \in Providers : moved.prov[q] = r.prov[q] - Share(q, p0, n)
      /\ OwnInfo(r) => OwnInfo(moved)
  BY MoveOverlapFacts
<1>4. /\ removed \in Registration
      /\ removed.count = r.count - less
      /\ \A q \in Providers : removed.prov[q] = r.prov[q] - Share(q, p0, n + less)
      /\ OwnInfo(r) => OwnInfo(removed)
  <2>1. less <= moved.count
    BY <1>1, <1>2, <1>3
  <2>2. \A q \in Providers : Share(q, p0, less) <= moved.prov[q]
    BY <1>1, <1>2, <1>3 DEF Share
  <2>3. less = moved.count =>
          \A q \in Providers : moved.prov[q] = Share(q, p0, less)
    BY <1>1, <1>2, <1>3 DEF Share
  <2>4. /\ removed \in Registration
        /\ removed.count = moved.count - less
        /\ \A q \in Providers : removed.prov[q] = moved.prov[q] - Share(q, p0, less)
        /\ OwnInfo(moved) => OwnInfo(removed)
    BY <1>2, <1>3, <2>1, <2>2, <2>3, RemoveRegistrationFacts
  <2>5. QED
    BY <2>4, <1>1, <1>2, <1>3 DEF Share
<1>5. /\ added \in Registration
      /\ added.count = r.count - old + new
      /\ \A q \in Providers : added.prov[q] =
           r.prov[q] - Share(q, p0, n + less) + Share(q, p1, more)
      /\ OwnInfo(r) => OwnInfo(added)
  <2>1. /\ added \in Registration
        /\ added.count = removed.count + more
        /\ \A q \in Providers : added.prov[q] = removed.prov[q] + Share(q, p1, more)
        /\ OwnInfo(removed) => OwnInfo(added)
    BY <1>2, <1>4, AddRegistrationFacts
  <2>2. QED
    BY <2>1, <1>1, <1>2, <1>4 DEF Share
<1>6. QED
  BY <1>3, <1>4, <1>5

LEMMA ReconcileFacts ==
  ASSUME NEW r \in Registration, NEW c \in Clients,
         NEW p0 \in ProvidersOrNone, NEW p1 \in ProvidersOrNone,
         NEW old \in Nat, NEW new \in Nat, old <= r.count,
         \A q \in Providers : Share(q, p0, old) <= r.prov[q],
         old = r.count => \A q \in Providers : r.prov[q] = Share(q, p0, old)
  PROVE  LET s == Reconcile(r, c, p0, p1, old, new)
         IN  /\ s \in Registration
             /\ s.count = r.count - old + new
             /\ \A q \in Providers :
                  s.prov[q] = r.prov[q] - Share(q, p0, old) + Share(q, p1, new)
             /\ OwnInfo(r) => OwnInfo(s)
<1> DEFINE less == Monus(old, new)
           more == Monus(new, old)
           n == Overlap(p0, p1, old, new)
           moved == MoveOverlap(r, p0, p1, old, new)
           removed == RemoveRegistration(moved, c, p0, less)
           added == AddRegistration(removed, p1, more)
<1> USE ConstantsAssumption
<1>1. r.count \in Nat /\ r.prov \in [Providers -> Nat]
  BY DEF Registration
<1>2. /\ less \in Nat /\ more \in Nat /\ n \in Nat
      /\ less - more = old - new
      /\ p0 # p1 => n + less = old /\ n + more = new
      /\ p0 = p1 => n = 0
      /\ n + less <= old
      /\ more <= new
  BY DEF Monus, Overlap, Least
<1>3. /\ added \in Registration
      /\ added.count = r.count - old + new
      /\ \A q \in Providers : added.prov[q] =
           r.prov[q] - Share(q, p0, n + less) + Share(q, p1, more)
      /\ OwnInfo(r) => OwnInfo(added)
  BY ReconcileParts
<1>4. /\ added.count >= new
      /\ p0 = p1 => \A q \in Providers : Share(q, p1, new) <= added.prov[q]
      /\ p0 # p1 => \A q \in Providers : Share(q, p1, more) <= added.prov[q]
  BY <1>1, <1>2, <1>3 DEF Share
<1>5. LET s == RefreshBinding(added, c, p0, p1, old, new)
      IN  /\ s \in Registration
          /\ s.count = added.count
          /\ \A q \in Providers : s.prov[q] = added.prov[q] + Share(q, p1, n)
          /\ OwnInfo(added) => OwnInfo(s)
  BY <1>3, <1>4, RefreshBindingFacts
<1>6. Reconcile(r, c, p0, p1, old, new) = RefreshBinding(added, c, p0, p1, old, new)
  BY DEF Reconcile
<1>7. \A q \in Providers :
        r.prov[q] - Share(q, p0, n + less) + Share(q, p1, more) + Share(q, p1, n)
          = r.prov[q] - Share(q, p0, old) + Share(q, p1, new)
  BY <1>1, <1>2 DEF Share
<1>8. QED
  BY <1>3, <1>5, <1>6, <1>7

(***************************************************************************)
(* Totals over the clients' lists, before and after one client is rebound. *)
(***************************************************************************)
Total(f) == Cardinality(SlotsOf(f))
ModelCol(cm, m) == [d \in Clients |-> cm[d][m]]
ProviderCol(cm, cp, m, q) == [d \in Clients |-> IF cp[d] = q THEN cm[d][m] ELSE 0]

LEMMA RebindTotals ==
  ASSUME NEW cm \in [Clients -> Bags], NEW cp \in [Clients -> ProvidersOrNone],
         NEW c \in Clients, NEW p \in ProvidersOrNone, NEW bag \in Bags,
         NEW m \in Models
  PROVE  LET cm2 == [cm EXCEPT ![c] = bag]
             cp2 == [cp EXCEPT ![c] = p]
         IN  /\ Total(ModelCol(cm, m)) \in Nat
             /\ cm[c][m] <= Total(ModelCol(cm, m))
             /\ Total(ModelCol(cm2, m)) = Total(ModelCol(cm, m)) - cm[c][m] + bag[m]
             /\ \A q \in Providers :
                  LET t == Total(ProviderCol(cm, cp, m, q))
                  IN  /\ Share(q, cp[c], cm[c][m]) <= t
                      /\ Total(ProviderCol(cm2, cp2, m, q))
                           = t - Share(q, cp[c], cm[c][m]) + Share(q, p, bag[m])
                      /\ cm[c][m] = Total(ModelCol(cm, m))
                           => t = Share(q, cp[c], cm[c][m])
<1> DEFINE cm2 == [cm EXCEPT ![c] = bag]
           cp2 == [cp EXCEPT ![c] = p]
           f == ModelCol(cm, m)
           g == ModelCol(cm2, m)
<1> USE ConstantsAssumption
<1>1. /\ f \in [Clients -> 0 .. MaxMult]
      /\ g \in [Clients -> 0 .. MaxMult]
      /\ \A d \in Clients \ {c} : g[d] = f[d]
      /\ f[c] = cm[c][m] /\ g[c] = bag[m]
  BY DEF ModelCol, Bags
<1>2. /\ Total(f) \in Nat
      /\ cm[c][m] <= Total(f)
      /\ Total(g) = Total(f) - cm[c][m] + bag[m]
  <2>1. Total(f) \in Nat
    BY <1>1, SlotsSize DEF Total
  <2>2. f[c] <= Total(f) /\ Total(g) = Total(f) - f[c] + g[c]
    BY <1>1, SlotsUpdate DEF Total
  <2>3. QED
    BY <2>1, <2>2, <1>1
<1>3. ASSUME NEW q \in Providers
      PROVE  LET t == Total(ProviderCol(cm, cp, m, q))
             IN  /\ Share(q, cp[c], cm[c][m]) <= t
                 /\ Total(ProviderCol(cm2, cp2, m, q))
                      = t - Share(q, cp[c], cm[c][m]) + Share(q, p, bag[m])
                 /\ cm[c][m] = Total(f) => t = Share(q, cp[c], cm[c][m])
  <2> DEFINE h == ProviderCol(cm, cp, m, q)
             k == ProviderCol(cm2, cp2, m, q)
  <2>1. /\ h \in [Clients -> 0 .. MaxMult]
        /\ k \in [Clients -> 0 .. MaxMult]
        /\ \A d \in Clients \ {c} : k[d] = h[d]
        /\ h[c] = Share(q, cp[c], cm[c][m]) /\ k[c] = Share(q, p, bag[m])
    BY DEF ProviderCol, Bags, Share
  <2>2. /\ h[c] <= Total(h)
        /\ Total(k) = Total(h) - h[c] + k[c]
    BY <2>1, SlotsUpdate DEF Total
  <2>3. ASSUME cm[c][m] = Total(f) PROVE Total(h) = h[c]
    <3>1. Cardinality(SlotsBut(f, c)) = 0
      BY <2>3, <1>1, SlotsSize DEF Total
    <3>2. SlotsBut(f, c) = {}
      BY <3>1, <1>1, SlotsSplit, FS_EmptySet
    <3>3. SlotsBut(h, c) \subseteq SlotsBut(f, c)
      BY <1>1, <2>1 DEF SlotsBut, SlotsOf, ProviderCol, ModelCol
    <3>4. SlotsBut(h, c) = {}
      BY <3>2, <3>3
    <3>5. Cardinality(SlotsBut(h, c)) = 0
      BY <3>4, FS_EmptySet
    <3>6. Cardinality(SlotsOf(h)) = Cardinality(SlotsBut(h, c)) + h[c]
      BY <2>1, SlotsSize
    <3>7. h[c] \in Nat
      BY <2>1
    <3>8. QED
      BY <3>5, <3>6, <3>7 DEF Total
  <2>4. QED
    BY <2>1, <2>2, <2>3
<1>4. QED
  BY <1>2, <1>3

(***************************************************************************)
(* Typing.                                                                 *)
(***************************************************************************)
\* A non-empty set of naturals has a least element.
LEMMA LeastOfNaturals ==
  ASSUME NEW S \in SUBSET Nat, S # {}
  PROVE  \E x \in S : \A y \in S : x <= y
<1> DEFINE R == {ss \in Nat \X Nat : ss[1] < ss[2]}
<1>1. OpToRel(<, Nat) = R
  BY Zenon DEF OpToRel
<1>2. \E x \in S : \A y \in S : ~ (<<y, x>> \in R)
  <2> HIDE DEF R
  <2>1. IsWellFoundedOn(R, Nat)
    BY <1>1, NatLessThanWellFounded
  <2>2. QED
    BY <2>1, WFMin
<1>3. PICK x \in S : \A y \in S : ~ (<<y, x>> \in R)
  BY <1>2
<1>4. ASSUME NEW y \in S PROVE x <= y
  <2>1. ~ (<<y, x>> \in R)
    BY <1>3
  <2>2. <<y, x>> \in Nat \X Nat
    OBVIOUS
  <2>3. ~ (y < x)
    BY <2>1, <2>2
  <2>4. x \in Nat /\ y \in Nat
    OBVIOUS
  <2>5. QED
    BY <2>3, <2>4
<1>5. QED
  BY <1>4

LEMMA MinOfNaturals ==
  ASSUME NEW S \in SUBSET Nat, S # {}
  PROVE  Min(S) \in S
BY LeastOfNaturals DEF Min

CacheType == [Handlers -> [valid : BOOLEAN, models : SUBSET Models,
                           expires : 0 .. Never]]

LEMMA InvalidateCacheType == InvalidateCache => cache' \in CacheType
<1> USE ConstantsAssumption
<1>1. Never \in 0 .. Never
  BY DEF Never
<1>2. NoEntry \in [valid : BOOLEAN, models : SUBSET Models, expires : 0 .. Never]
  BY <1>1 DEF NoEntry
<1>3. QED
  BY <1>2 DEF InvalidateCache, CacheType

LEMMA BuiltEntryType ==
  ASSUME NEW t \in Time
  PROVE  BuiltEntry(t) \in [valid : BOOLEAN, models : SUBSET Models,
                            expires : 0 .. Never]
<1> USE ConstantsAssumption
<1>1. Never \in Nat
  BY DEF Never
<1>2. ListedModels(t) \in SUBSET Models
  BY DEF ListedModels
<1>3. Recoveries(t) \in SUBSET (0 .. Never)
  BY DEF Recoveries
<1>4. CASE Recoveries(t) = {}
  BY <1>1, <1>2, <1>4 DEF BuiltEntry
<1>5. CASE Recoveries(t) # {}
  <2>1. Recoveries(t) \in SUBSET Nat
    BY <1>1, <1>3
  <2>2. Min(Recoveries(t)) \in Recoveries(t)
    BY <2>1, <1>5, MinOfNaturals
  <2>3. QED
    BY <2>2, <1>2, <1>3, <1>5 DEF BuiltEntry
<1>6. QED
  BY <1>4, <1>5

(***************************************************************************)
(* The inductive invariant, over the values of the three maps so that it   *)
(* reads the same before and after a step.                                 *)
(***************************************************************************)
Counted(r, cm, cp) ==
  \A m \in Models :
    /\ r[m].count = Total(ModelCol(cm, m))
    /\ \A q \in Providers : r[m].prov[q] = Total(ProviderCol(cm, cp, m, q))
    /\ OwnInfo(r[m])

IInv == TypeOK /\ Counted(reg, clientModels, clientProvider)

LEMMA EmptyTotals ==
  ASSUME NEW f \in [Clients -> 0 .. MaxMult], \A c \in Clients : f[c] = 0
  PROVE  Total(f) = 0
<1> USE ConstantsAssumption
<1>1. SlotsOf(f) = {}
  BY DEF SlotsOf
<1>2. QED
  BY <1>1, FS_EmptySet DEF Total

LEMMA InitIInv == Init => IInv
<1> SUFFICES ASSUME Init PROVE IInv
  OBVIOUS
<1> USE ConstantsAssumption DEF Init
<1>1. TypeOK
  <2>1. EmptyBag \in Bags
    BY DEF EmptyBag, Bags
  <2>2. cache \in CacheType
    <3>1. NoEntry \in [valid : BOOLEAN, models : SUBSET Models, expires : 0 .. Never]
      BY DEF NoEntry, Never
    <3>2. QED
      BY <3>1 DEF CacheType
  <2>3. reg \in [Models -> Registration]
    BY NoRegFacts
  <2>4. QED
    BY <2>1, <2>2, <2>3 DEF TypeOK, CacheType, ProvidersOrNone, Time
<1>2. ASSUME NEW m \in Models
      PROVE  /\ reg[m].count = Total(ModelCol(clientModels, m))
             /\ \A q \in Providers : reg[m].prov[q]
                  = Total(ProviderCol(clientModels, clientProvider, m, q))
             /\ OwnInfo(reg[m])
  <2>1. reg[m] = NoReg
    OBVIOUS
  <2>2. Total(ModelCol(clientModels, m)) = 0
    <3>1. /\ ModelCol(clientModels, m) \in [Clients -> 0 .. MaxMult]
          /\ \A c \in Clients : ModelCol(clientModels, m)[c] = 0
      BY DEF ModelCol, EmptyBag
    <3>2. QED
      BY <3>1, EmptyTotals
  <2>3. ASSUME NEW q \in Providers
        PROVE  Total(ProviderCol(clientModels, clientProvider, m, q)) = 0
    <3>1. /\ ProviderCol(clientModels, clientProvider, m, q)
               \in [Clients -> 0 .. MaxMult]
          /\ \A c \in Clients :
               ProviderCol(clientModels, clientProvider, m, q)[c] = 0
      BY DEF ProviderCol, EmptyBag
    <3>2. QED
      BY <3>1, EmptyTotals
  <2>4. QED
    BY <2>1, <2>2, <2>3, NoRegFacts
<1>3. QED
  BY <1>1, <1>2 DEF IInv, Counted

\* What the invariant gives for the registration of one model and one client.
LEMMA HelpersApply ==
  ASSUME IInv, NEW c \in Clients, NEW m \in Models
  PROVE  LET old == clientModels[c][m]
             p0 == clientProvider[c]
         IN  /\ reg[m] \in Registration
             /\ p0 \in ProvidersOrNone
             /\ old \in Nat
             /\ old <= reg[m].count
             /\ \A q \in Providers : Share(q, p0, old) <= reg[m].prov[q]
             /\ old = reg[m].count
                  => \A q \in Providers : reg[m].prov[q] = Share(q, p0, old)
<1> USE ConstantsAssumption
<1>1. /\ clientModels \in [Clients -> Bags]
      /\ clientProvider \in [Clients -> ProvidersOrNone]
      /\ reg \in [Models -> Registration]
  BY DEF IInv, TypeOK
<1>2. clientModels[c] \in Bags /\ clientProvider[c] \in ProvidersOrNone
  BY <1>1
<1>3. clientModels[c][m] \in Nat
  BY <1>2 DEF Bags
<1>4. QED
  BY <1>1, <1>2, <1>3, RebindTotals DEF IInv, Counted

\* A step that rebinds client c keeps the invariant when every registration
\* gains and loses the occurrences of c.
LEMMA RebindCounted ==
  ASSUME IInv, NEW c \in Clients, NEW p \in ProvidersOrNone, NEW bag \in Bags,
         NEW r,
         \A m \in Models :
           /\ r[m].count = reg[m].count - clientModels[c][m] + bag[m]
           /\ \A q \in Providers : r[m].prov[q] = reg[m].prov[q]
                - Share(q, clientProvider[c], clientModels[c][m]) + Share(q, p, bag[m])
           /\ OwnInfo(reg[m]) => OwnInfo(r[m])
  PROVE  Counted(r, [clientModels EXCEPT ![c] = bag],
                    [clientProvider EXCEPT ![c] = p])
<1>1. /\ clientModels \in [Clients -> Bags]
      /\ clientProvider \in [Clients -> ProvidersOrNone]
  BY DEF IInv, TypeOK
<1>2. ASSUME NEW m \in Models
      PROVE  /\ r[m].count = Total(ModelCol([clientModels EXCEPT ![c] = bag], m))
             /\ \A q \in Providers : r[m].prov[q]
                  = Total(ProviderCol([clientModels EXCEPT ![c] = bag],
                                      [clientProvider EXCEPT ![c] = p], m, q))
             /\ OwnInfo(r[m])
  <2> DEFINE cm2 == [clientModels EXCEPT ![c] = bag]
             cp2 == [clientProvider EXCEPT ![c] = p]
             old == clientModels[c][m]
             t(q) == Total(ProviderCol(clientModels, clientProvider, m, q))
  <2>1. /\ Total(ModelCol(cm2, m)) = Total(ModelCol(clientModels, m)) - old + bag[m]
        /\ \A q \in Providers :
             Total(ProviderCol(cm2, cp2, m, q))
               = t(q) - Share(q, clientProvider[c], old) + Share(q, p, bag[m])
    BY <1>1, RebindTotals
  <2>2. /\ reg[m].count = Total(ModelCol(clientModels, m))
        /\ \A q \in Providers : reg[m].prov[q] = t(q)
        /\ OwnInfo(reg[m])
    BY DEF IInv, Counted
  <2>3. /\ r[m].count = reg[m].count - old + bag[m]
        /\ \A q \in Providers : r[m].prov[q]
             = reg[m].prov[q] - Share(q, clientProvider[c], old) + Share(q, p, bag[m])
        /\ OwnInfo(reg[m]) => OwnInfo(r[m])
    OBVIOUS
  <2>4. r[m].count = Total(ModelCol(cm2, m)) /\ OwnInfo(r[m])
    BY <2>1, <2>2, <2>3
  <2>5. ASSUME NEW q \in Providers
        PROVE  r[m].prov[q] = Total(ProviderCol(cm2, cp2, m, q))
    BY <2>1, <2>2, <2>3
  <2>6. QED
    BY <2>4, <2>5
<1>3. QED
  BY <1>2 DEF Counted

(***************************************************************************)
(* Every action keeps the invariant.                                       *)
(***************************************************************************)
LEMMA AddClientStep ==
  ASSUME IInv, NEW c \in Clients, NEW p \in ProvidersOrNone, NEW bag \in Bags,
         AddClient(c, p, bag)
  PROVE  IInv'
<1> USE ConstantsAssumption
<1>1. /\ clientModels \in [Clients -> Bags]
      /\ clientProvider \in [Clients -> ProvidersOrNone]
      /\ reg \in [Models -> Registration]
      /\ now \in Time
  BY DEF IInv, TypeOK
<1>2. /\ clientModels' = [clientModels EXCEPT ![c] = bag]
      /\ clientProvider' = [clientProvider EXCEPT ![c] = p]
      /\ reg' = [m \in Models |-> AddRegistration(reg[m], p, bag[m])]
      /\ cache' \in CacheType
      /\ now' = now
  BY InvalidateCacheType DEF AddClient
<1>3. ASSUME NEW m \in Models
      PROVE  /\ reg'[m] \in Registration
             /\ reg'[m].count = reg[m].count - clientModels[c][m] + bag[m]
             /\ \A q \in Providers : reg'[m].prov[q] = reg[m].prov[q]
                  - Share(q, clientProvider[c], clientModels[c][m]) + Share(q, p, bag[m])
             /\ OwnInfo(reg[m]) => OwnInfo(reg'[m])
  <2>1. clientModels[c] \in Bags
    BY <1>1
  <2>2. clientModels[c][m] = 0
    BY <2>1 DEF AddClient, HasClient, Bags
  <2>3. bag[m] \in Nat
    BY DEF Bags
  <2>4. /\ reg[m] \in Registration
        /\ reg[m].count \in Nat
        /\ \A q \in Providers : reg[m].prov[q] \in Nat
    BY <1>1 DEF Registration
  <2>5. reg'[m] = AddRegistration(reg[m], p, bag[m])
    BY <1>2
  <2>6. /\ reg'[m] \in Registration
        /\ reg'[m].count = reg[m].count + bag[m]
        /\ \A q \in Providers : reg'[m].prov[q] = reg[m].prov[q] + Share(q, p, bag[m])
        /\ OwnInfo(reg[m]) => OwnInfo(reg'[m])
    <3>1. LET s == AddRegistration(reg[m], p, bag[m])
          IN  /\ s \in Registration
              /\ s.count = reg[m].count + bag[m]
              /\ \A q \in Providers : s.prov[q] = reg[m].prov[q] + Share(q, p, bag[m])
              /\ OwnInfo(reg[m]) => OwnInfo(s)
      BY <2>3, <2>4, AddRegistrationFacts
    <3>2. QED
      BY <3>1, <2>5
  <2>7. \A q \in Providers : Share(q, clientProvider[c], clientModels[c][m]) = 0
    BY <2>2 DEF Share
  <2>8. QED
    BY <2>2, <2>3, <2>4, <2>6, <2>7
<1>4. TypeOK'
  <2>1. clientModels' \in [Clients -> Bags] /\ clientProvider' \in [Clients -> ProvidersOrNone]
    BY <1>1, <1>2
  <2>2. reg' \in [Models -> Registration]
    BY <1>2, <1>3
  <2>3. marked' \subseteq Clients \X Models
    BY DEF IInv, TypeOK, AddClient
  <2>4. QED
    BY <2>3, <2>1, <2>2, <1>1, <1>2 DEF TypeOK, CacheType
<1>5. Counted(reg', clientModels', clientProvider')
  BY <1>2, <1>3, RebindCounted
<1>6. QED
  BY <1>4, <1>5 DEF IInv

LEMMA ReconcileClientStep ==
  ASSUME IInv, NEW c \in Clients, NEW p \in ProvidersOrNone, NEW bag \in Bags,
         ReconcileClient(c, p, bag)
  PROVE  IInv'
<1> USE ConstantsAssumption
<1>1. /\ clientModels \in [Clients -> Bags]
      /\ clientProvider \in [Clients -> ProvidersOrNone]
      /\ reg \in [Models -> Registration]
      /\ now \in Time
  BY DEF IInv, TypeOK
<1>2. /\ clientModels' = [clientModels EXCEPT ![c] = bag]
      /\ clientProvider' = [clientProvider EXCEPT ![c] = p]
      /\ reg' = [m \in Models |-> Reconcile(reg[m], c, clientProvider[c], p,
                                            clientModels[c][m], bag[m])]
      /\ cache' \in CacheType
      /\ now' = now
  BY InvalidateCacheType DEF ReconcileClient
<1>3. ASSUME NEW m \in Models
      PROVE  /\ reg'[m] \in Registration
             /\ reg'[m].count = reg[m].count - clientModels[c][m] + bag[m]
             /\ \A q \in Providers : reg'[m].prov[q] = reg[m].prov[q]
                  - Share(q, clientProvider[c], clientModels[c][m]) + Share(q, p, bag[m])
             /\ OwnInfo(reg[m]) => OwnInfo(reg'[m])
  <2>1. reg'[m] = Reconcile(reg[m], c, clientProvider[c], p, clientModels[c][m], bag[m])
    BY <1>2
  <2>2. bag[m] \in Nat
    BY DEF Bags
  <2>3. QED
    BY <2>1, <2>2, HelpersApply, ReconcileFacts
<1>4. TypeOK'
  <2>1. clientModels' \in [Clients -> Bags] /\ clientProvider' \in [Clients -> ProvidersOrNone]
    BY <1>1, <1>2
  <2>2. reg' \in [Models -> Registration]
    BY <1>2, <1>3
  <2>3. marked' \subseteq Clients \X Models
    BY DEF IInv, TypeOK, ReconcileClient, Listing
  <2>4. QED
    BY <2>3, <2>1, <2>2, <1>1, <1>2 DEF TypeOK, CacheType
<1>5. Counted(reg', clientModels', clientProvider')
  BY <1>2, <1>3, RebindCounted
<1>6. QED
  BY <1>4, <1>5 DEF IInv

LEMMA UnregisterClientStep ==
  ASSUME IInv, NEW c \in Clients, UnregisterClient(c)
  PROVE  IInv'
<1> USE ConstantsAssumption
<1>1. /\ clientModels \in [Clients -> Bags]
      /\ clientProvider \in [Clients -> ProvidersOrNone]
      /\ reg \in [Models -> Registration]
      /\ now \in Time
      /\ EmptyBag \in Bags
      /\ NoProvider \in ProvidersOrNone
  BY DEF IInv, TypeOK, EmptyBag, Bags, ProvidersOrNone
<1>2. /\ clientModels' = [clientModels EXCEPT ![c] = EmptyBag]
      /\ clientProvider' = [clientProvider EXCEPT ![c] = NoProvider]
      /\ reg' = [m \in Models |-> RemoveRegistration(reg[m], c, clientProvider[c],
                                                     clientModels[c][m])]
      /\ cache' \in CacheType
      /\ now' = now
  BY InvalidateCacheType DEF UnregisterClient
<1>3. ASSUME NEW m \in Models
      PROVE  /\ reg'[m] \in Registration
             /\ reg'[m].count = reg[m].count - clientModels[c][m] + EmptyBag[m]
             /\ \A q \in Providers : reg'[m].prov[q] = reg[m].prov[q]
                  - Share(q, clientProvider[c], clientModels[c][m])
                  + Share(q, NoProvider, EmptyBag[m])
             /\ OwnInfo(reg[m]) => OwnInfo(reg'[m])
  <2> DEFINE old == clientModels[c][m]
             p0 == clientProvider[c]
  <2>1. reg'[m] = RemoveRegistration(reg[m], c, p0, old)
    BY <1>2
  <2>2. /\ reg'[m] \in Registration
        /\ reg'[m].count = reg[m].count - old
        /\ \A q \in Providers : reg'[m].prov[q] = reg[m].prov[q] - Share(q, p0, old)
        /\ OwnInfo(reg[m]) => OwnInfo(reg'[m])
    BY <2>1, HelpersApply, RemoveRegistrationFacts
  <2>3. EmptyBag[m] = 0 /\ \A q \in Providers : Share(q, NoProvider, EmptyBag[m]) = 0
    BY DEF EmptyBag, Share
  <2>4. reg'[m].count \in Nat /\ \A q \in Providers : reg'[m].prov[q] \in Nat
    BY <2>2 DEF Registration
  <2>5. reg'[m].count + 0 = reg'[m].count
    BY <2>4
  <2>6. \A q \in Providers : reg'[m].prov[q] + 0 = reg'[m].prov[q]
    BY <2>4
  <2>7. QED
    BY <2>2, <2>3, <2>5, <2>6
<1>4. TypeOK'
  <2>1. clientModels' \in [Clients -> Bags] /\ clientProvider' \in [Clients -> ProvidersOrNone]
    BY <1>1, <1>2
  <2>2. reg' \in [Models -> Registration]
    BY <1>2, <1>3
  <2>3. marked' \subseteq Clients \X Models
    BY DEF IInv, TypeOK, UnregisterClient, Listing
  <2>4. QED
    BY <2>3, <2>1, <2>2, <1>1, <1>2 DEF TypeOK, CacheType
<1>5. Counted(reg', clientModels', clientProvider')
  BY <1>1, <1>2, <1>3, RebindCounted
<1>6. QED
  BY <1>4, <1>5 DEF IInv

\* A step that changes marks only, not counts, providers or information.
LEMMA MarksCounted ==
  ASSUME IInv, NEW r,
         \A m \in Models : /\ r[m].count = reg[m].count
                           /\ r[m].prov = reg[m].prov
                           /\ r[m].info = reg[m].info
  PROVE  Counted(r, clientModels, clientProvider)
BY DEF IInv, Counted, OwnInfo

\* One changed quota mark or suspension leaves a registration.
LEMMA MarkType ==
  ASSUME NEW r \in Registration, NEW c \in Clients
  PROVE  /\ \A t \in Time \cup {NoTime} :
              LET s == [r EXCEPT !.quota[c] = t]
              IN  /\ s \in Registration
                  /\ s.count = r.count /\ s.prov = r.prov /\ s.info = r.info
         /\ \A why \in Reasons :
              LET s == [r EXCEPT !.susp[c] = why]
              IN  /\ s \in Registration
                  /\ s.count = r.count /\ s.prov = r.prov /\ s.info = r.info
BY DEF Registration

LEMMA MarkStep ==
  ASSUME IInv, NEW c \in Clients, NEW m \in Models,
         \/ SetModelQuotaExceeded(c, m)
         \/ ClearModelQuotaExceeded(c, m)
         \/ \E why \in {"quota", "other"} : SuspendClientModel(c, m, why)
         \/ ResumeClientModel(c, m)
  PROVE  IInv'
<1>1. /\ reg \in [Models -> Registration]
      /\ now \in Time
      /\ clientModels \in [Clients -> Bags]
      /\ clientProvider \in [Clients -> ProvidersOrNone]
  BY DEF IInv, TypeOK
<1>2. \/ \E t \in Time \cup {NoTime} : reg' = [reg EXCEPT ![m].quota[c] = t]
      \/ \E why \in Reasons : reg' = [reg EXCEPT ![m].susp[c] = why]
  <2>1. now \in Time \cup {NoTime} /\ NoTime \in Time \cup {NoTime}
    BY <1>1
  <2>2. "none" \in Reasons /\ {"quota", "other"} \subseteq Reasons
    BY DEF Reasons
  <2>3. CASE SetModelQuotaExceeded(c, m)
    BY <2>1, <2>3, Zenon DEF SetModelQuotaExceeded
  <2>4. CASE ClearModelQuotaExceeded(c, m)
    BY <2>1, <2>4, Zenon DEF ClearModelQuotaExceeded
  <2>5. CASE \E why \in {"quota", "other"} : SuspendClientModel(c, m, why)
    BY <2>2, <2>5, Zenon DEF SuspendClientModel
  <2>6. CASE ResumeClientModel(c, m)
    BY <2>2, <2>6, Zenon DEF ResumeClientModel
  <2>7. QED
    BY <2>3, <2>4, <2>5, <2>6
<1>3. \A k \in Models : /\ reg'[k] \in Registration
                         /\ reg'[k].count = reg[k].count
                         /\ reg'[k].prov = reg[k].prov
                         /\ reg'[k].info = reg[k].info
  <2>1. reg[m] \in Registration
    BY <1>1
  <2>2. ASSUME NEW t \in Time \cup {NoTime}, reg' = [reg EXCEPT ![m].quota[c] = t]
        PROVE  /\ reg'[m] = [reg[m] EXCEPT !.quota[c] = t]
               /\ \A k \in Models \ {m} : reg'[k] = reg[k]
    BY <2>2, <1>1
  <2>3. ASSUME NEW why \in Reasons, reg' = [reg EXCEPT ![m].susp[c] = why]
        PROVE  /\ reg'[m] = [reg[m] EXCEPT !.susp[c] = why]
               /\ \A k \in Models \ {m} : reg'[k] = reg[k]
    BY <2>3, <1>1
  <2>4. /\ reg'[m] \in Registration
        /\ reg'[m].count = reg[m].count
        /\ reg'[m].prov = reg[m].prov
        /\ reg'[m].info = reg[m].info
    <3>1. CASE \E t \in Time \cup {NoTime} : reg' = [reg EXCEPT ![m].quota[c] = t]
      <4>1. PICK t \in Time \cup {NoTime} : reg' = [reg EXCEPT ![m].quota[c] = t]
        BY <3>1
      <4>2. reg'[m] = [reg[m] EXCEPT !.quota[c] = t]
        BY <2>2, <4>1
      <4>3. QED
        BY <2>1, <4>2, MarkType
    <3>2. CASE \E why \in Reasons : reg' = [reg EXCEPT ![m].susp[c] = why]
      <4>1. PICK why \in Reasons : reg' = [reg EXCEPT ![m].susp[c] = why]
        BY <3>2
      <4>2. reg'[m] = [reg[m] EXCEPT !.susp[c] = why]
        BY <2>3, <4>1
      <4>3. QED
        BY <2>1, <4>2, MarkType
    <3>3. QED
      BY <3>1, <3>2, <1>2
  <2>5. \A k \in Models \ {m} : reg'[k] = reg[k]
    BY <1>2, <2>2, <2>3
  <2>6. QED
    BY <2>4, <2>5, <1>1
<1>4. /\ UNCHANGED <<clientModels, clientProvider, now>>
      /\ cache' \in CacheType
  BY InvalidateCacheType
  DEF SetModelQuotaExceeded, ClearModelQuotaExceeded, SuspendClientModel, ResumeClientModel
<1>5. TypeOK'
  <2>1. reg' \in [Models -> Registration]
    BY <1>1, <1>2, <1>3
  <2>2. marked' \subseteq Clients \X Models
    BY DEF IInv, TypeOK, SetModelQuotaExceeded, ClearModelQuotaExceeded,
       SuspendClientModel, ResumeClientModel
  <2>3. QED
    BY <2>2, <2>1, <1>1, <1>4 DEF TypeOK, CacheType
<1>6. Counted(reg', clientModels', clientProvider')
  BY <1>3, <1>4, MarksCounted
<1>7. QED
  BY <1>5, <1>6 DEF IInv

LEMMA CleanupStep ==
  ASSUME IInv, CleanupExpiredQuotas
  PROVE  IInv'
<1> DEFINE stale(m, c) == reg[m].quota[c] # NoTime /\ ~InQuotaWindow(reg[m], c, now)
           swept(m) == [c \in Clients |-> IF stale(m, c) THEN NoTime ELSE reg[m].quota[c]]
<1>1. /\ reg \in [Models -> Registration]
      /\ now \in Time
      /\ clientModels \in [Clients -> Bags]
      /\ clientProvider \in [Clients -> ProvidersOrNone]
  BY DEF IInv, TypeOK
<1>2. /\ reg' = [m \in Models |-> [reg[m] EXCEPT !.quota = swept(m)]]
      /\ cache' \in CacheType
      /\ UNCHANGED <<clientModels, clientProvider, now>>
  BY InvalidateCacheType DEF CleanupExpiredQuotas
<1>3. ASSUME NEW m \in Models
      PROVE  /\ reg'[m] \in Registration
             /\ reg'[m].count = reg[m].count
             /\ reg'[m].prov = reg[m].prov
             /\ reg'[m].info = reg[m].info
  <2>1. reg[m] \in Registration /\ reg'[m] = [reg[m] EXCEPT !.quota = swept(m)]
    BY <1>1, <1>2
  <2>2. swept(m) \in [Clients -> Time \cup {NoTime}]
    BY <2>1 DEF Registration
  <2> HIDE DEF swept
  <2>3. QED
    BY <2>1, <2>2 DEF Registration
<1>4. TypeOK'
  <2>1. reg' \in [Models -> Registration]
    BY <1>2, <1>3
  <2>2. marked' \subseteq Clients \X Models
    BY DEF IInv, TypeOK, CleanupExpiredQuotas
  <2>3. QED
    BY <2>2, <2>1, <1>1, <1>2 DEF TypeOK, CacheType
<1>5. Counted(reg', clientModels', clientProvider')
  BY <1>2, <1>3, MarksCounted
<1>6. QED
  BY <1>4, <1>5 DEF IInv

\* A listing, the passing of time and stuttering leave all registrations alone.
LEMMA OtherStep ==
  ASSUME IInv,
         \/ \E h \in Handlers, t \in Time : GetAvailableModels(h, t)
         \/ Tick
         \/ UNCHANGED vars
  PROVE  IInv'
<1> USE ConstantsAssumption
<1>1. TypeOK
  BY DEF IInv
<1>2. UNCHANGED <<clientModels, clientProvider, reg, marked>>
  BY DEF GetAvailableModels, Tick, vars
<1>3. cache' \in CacheType
  <2>1. CASE \E h \in Handlers, t \in Time : GetAvailableModels(h, t)
    BY <2>1, <1>1, BuiltEntryType DEF GetAvailableModels, TypeOK, CacheType
  <2>2. CASE Tick \/ UNCHANGED vars
    BY <2>2, <1>1 DEF Tick, vars, TypeOK, CacheType
  <2>3. QED
    BY <2>1, <2>2
<1>4. now' \in Time
  BY <1>1 DEF GetAvailableModels, Tick, vars, TypeOK, Time
<1>5. QED
  BY <1>1, <1>2, <1>3, <1>4 DEF IInv, TypeOK, CacheType

LEMMA NextIInv == IInv /\ [Next]_vars => IInv'
<1> SUFFICES ASSUME IInv, [Next]_vars PROVE IInv'
  OBVIOUS
<1>1. CASE \E c \in Clients, p \in ProvidersOrNone, bag \in Bags :
             AddClient(c, p, bag) \/ ReconcileClient(c, p, bag)
  BY <1>1, AddClientStep, ReconcileClientStep
<1>2. CASE \E c \in Clients : UnregisterClient(c)
  BY <1>2, UnregisterClientStep
<1>3. CASE \E c \in Clients, m \in Models :
             \/ SetModelQuotaExceeded(c, m)
             \/ ClearModelQuotaExceeded(c, m)
             \/ \E why \in {"quota", "other"} : SuspendClientModel(c, m, why)
             \/ ResumeClientModel(c, m)
  BY <1>3, MarkStep
<1>4. CASE CleanupExpiredQuotas
  BY <1>4, CleanupStep
<1>5. CASE (\E h \in Handlers, t \in Time : GetAvailableModels(h, t)) \/ Tick \/ UNCHANGED vars
  BY <1>5, OtherStep
<1>6. QED
  BY <1>1, <1>2, <1>3, <1>4, <1>5 DEF Next

(***************************************************************************)
(* The theorems.                                                           *)
(***************************************************************************)
\* The inductive invariant holds of every behaviour of the registry.
THEOREM InductiveInvariant == Spec => []IInv
<1>1. Init => IInv
  BY InitIInv
<1>2. IInv /\ [Next]_vars => IInv'
  BY NextIInv
<1>3. QED
  BY <1>1, <1>2, PTL DEF Spec

\* Every variable keeps its type under every operation of the registry: no
\* count of RegisterClient's bookkeeping ever goes below zero.
THEOREM TypeCorrect == Spec => []TypeOK
<1>1. IInv => TypeOK
  BY DEF IInv
<1>2. QED
  BY <1>1, InductiveInvariant, PTL

\* The slots of a model are those of its column of the clients' lists.
LEMMA SlotsAreColumns ==
  ASSUME TypeOK, NEW m \in Models
  PROVE  /\ Slots(m) = SlotsOf(ModelCol(clientModels, m))
         /\ \A p \in Providers :
              ProviderSlots(m, p) = SlotsOf(ProviderCol(clientModels, clientProvider, m, p))
<1> USE ConstantsAssumption
<1>1. Slots(m) = SlotsOf(ModelCol(clientModels, m))
  BY DEF Slots, SlotsOf, ModelCol
<1>2. ASSUME NEW p \in Providers
      PROVE  ProviderSlots(m, p) = SlotsOf(ProviderCol(clientModels, clientProvider, m, p))
  BY DEF ProviderSlots, Slots, SlotsOf, ProviderCol
<1>3. QED
  BY <1>1, <1>2

\* For any clients, models and providers, a model's Count is the number of its
\* occurrences in the clients' lists: the five adjustment loops of
\* RegisterClient and the removal path never lose or double one.
THEOREM CountsCorrect == Spec => []CountIsOccurrences
<1>1. IInv => CountIsOccurrences
  BY SlotsAreColumns DEF IInv, Counted, CountIsOccurrences, Total
<1>2. QED
  BY <1>1, InductiveInvariant, PTL

\* For any clients, models and providers, the per-provider counts that routing
\* uses are the occurrences of that provider's own clients.
THEOREM ProviderCountsCorrect == Spec => []ProviderCountIsOccurrences
<1>1. IInv => ProviderCountIsOccurrences
  BY SlotsAreColumns DEF IInv, Counted, ProviderCountIsOccurrences, Total
<1>2. QED
  BY <1>1, InductiveInvariant, PTL

\* A provider has model information of its own exactly while it has clients
\* for the model.
THEOREM InfoCorrect == Spec => []InfoMatchesProviders
<1>1. IInv => InfoMatchesProviders
  BY DEF IInv, Counted, OwnInfo, InfoMatchesProviders, ModelProviders
<1>2. QED
  BY <1>1, InductiveInvariant, PTL

\* The registry's books agree with its clients' lists.
THEOREM AlwaysAddsUp == Spec => []RegistryAddsUp
<1>1. CountIsOccurrences /\ ProviderCountIsOccurrences /\ InfoMatchesProviders
      => RegistryAddsUp
  BY DEF RegistryAddsUp
<1>2. QED
  BY <1>1, CountsCorrect, ProviderCountsCorrect, InfoCorrect, PTL

(***************************************************************************)
(* The cached listing.                                                     *)
(***************************************************************************)
\* The least recovery comes no later than any other.
LEMMA LeastRecovery ==
  ASSUME NEW t \in Time, Recoveries(t) # {}
  PROVE  Min(Recoveries(t)) \in Nat /\ \A u \in Recoveries(t) : Min(Recoveries(t)) <= u
<1> USE ConstantsAssumption
<1>1. Recoveries(t) \in SUBSET Nat
  BY DEF Recoveries, Never
<1>2. \E x \in Recoveries(t) : \A y \in Recoveries(t) : x <= y
  BY <1>1, LeastOfNaturals
<1>3. QED
  BY <1>1, <1>2 DEF Min

\* Until the least recovery no quota window that was open closes, and one that
\* was closed stays closed: the listing is the same.
LEMMA ListingKeeps ==
  ASSUME reg \in [Models -> Registration], NEW t \in Time, NEW u \in Time, t <= u,
         Recoveries(t) # {} => u < Min(Recoveries(t))
  PROVE  ListedModels(u) = ListedModels(t)
<1> USE ConstantsAssumption
<1>1. ASSUME NEW m \in Models, NEW c \in Clients
      PROVE  InQuotaWindow(reg[m], c, u) <=> InQuotaWindow(reg[m], c, t)
  <2> DEFINE end == reg[m].quota[c] + QuotaWindow
  <2>1. reg[m].quota[c] \in Time \cup {NoTime}
    BY DEF Registration
  <2>2. ASSUME InQuotaWindow(reg[m], c, t) PROVE InQuotaWindow(reg[m], c, u)
    <3>1. end \in 0 .. Never
      BY <2>1, <2>2 DEF InQuotaWindow, Time, Never, NoTime
    <3>2. end \in Recoveries(t)
      BY <3>1, <2>2 DEF Recoveries
    <3>3. Min(Recoveries(t)) <= end /\ Min(Recoveries(t)) \in Nat
      BY <3>2, LeastRecovery
    <3>4. u < end
      BY <3>1, <3>2, <3>3 DEF Time
    <3>5. QED
      BY <3>4, <2>2 DEF InQuotaWindow
  <2>3. ASSUME InQuotaWindow(reg[m], c, u) PROVE InQuotaWindow(reg[m], c, t)
    BY <2>1, <2>3 DEF InQuotaWindow, Time, NoTime
  <2>4. QED
    BY <2>2, <2>3
<1>2. \A m \in Models : Expired(reg[m], u) = Expired(reg[m], t)
  BY <1>1 DEF Expired
<1>3. \A m \in Models : Listed(reg[m], u) <=> Listed(reg[m], t)
  BY <1>2 DEF Listed
<1>4. QED
  BY <1>3 DEF ListedModels

\* Every entry of the cache was built from the present registrations.
CacheBuilt == \A h \in Handlers : cache[h].valid => \E t \in 0 .. now : cache[h] = BuiltEntry(t)

LEMMA CacheBuiltCoheres == TypeOK /\ CacheBuilt => CacheCoherent
<1> USE ConstantsAssumption
<1> SUFFICES ASSUME TypeOK, CacheBuilt, NEW h \in Handlers, CacheHit(h, now)
             PROVE  cache[h].models = ListedModels(now)
  BY DEF CacheCoherent
<1>1. now \in Time /\ reg \in [Models -> Registration] /\ Never \in Nat
  BY DEF TypeOK, Never
<1>2. PICK t \in 0 .. now : cache[h] = BuiltEntry(t)
  BY DEF CacheBuilt, CacheHit
<1>3. t \in Time /\ t <= now
  BY <1>1, <1>2 DEF Time
<1>4. cache[h].models = ListedModels(t)
  BY <1>2 DEF BuiltEntry
<1>5. Recoveries(t) # {} => now < Min(Recoveries(t))
  <2> SUFFICES ASSUME Recoveries(t) # {} PROVE now < Min(Recoveries(t))
    OBVIOUS
  <2>1. cache[h].expires = Min(Recoveries(t))
    BY <1>2 DEF BuiltEntry
  <2>2. CASE cache[h].expires # Never
    BY <2>1, <2>2 DEF CacheHit
  <2>3. CASE cache[h].expires = Never
    BY <2>1, <2>3, <1>1 DEF Never, Time
  <2>4. QED
    BY <2>2, <2>3
<1>6. QED
  BY <1>1, <1>3, <1>4, <1>5, ListingKeeps

LEMMA CacheBuiltStep == TypeOK /\ CacheBuilt /\ [Next]_vars => CacheBuilt'
<1> SUFFICES ASSUME TypeOK, CacheBuilt, [Next]_vars PROVE CacheBuilt'
  OBVIOUS
<1> USE ConstantsAssumption
<1>1. now \in Time /\ cache \in [Handlers -> [valid : BOOLEAN, models : SUBSET Models, expires : 0 .. Never]]
  BY DEF TypeOK
<1>2. CASE InvalidateCache
  BY <1>2 DEF InvalidateCache, NoEntry, CacheBuilt
<1>3. ASSUME UNCHANGED reg, NEW t \in Time PROVE BuiltEntry(t)' = BuiltEntry(t)
  BY <1>3 DEF BuiltEntry, ListedModels, Recoveries
<1>4. CASE \E h \in Handlers, t \in Time : GetAvailableModels(h, t)
  <2>1. PICK h \in Handlers, t \in Time : GetAvailableModels(h, t)
    BY <1>4
  <2>2. t \in 0 .. now /\ cache' = [cache EXCEPT ![h] = BuiltEntry(t)] /\ UNCHANGED <<reg, now>>
    BY <2>1 DEF GetAvailableModels, Time
  <2>3. ASSUME NEW g \in Handlers, cache'[g].valid
        PROVE  \E u \in 0 .. now : cache'[g] = BuiltEntry(u)
    <3>1. CASE g = h
      BY <3>1, <2>2, <1>1
    <3>2. CASE g # h
      BY <3>2, <2>2, <2>3, <1>1 DEF CacheBuilt
    <3>3. QED
      BY <3>1, <3>2
  <2>4. \A u \in 0 .. now : BuiltEntry(u)' = BuiltEntry(u)
    BY <2>2, <1>1, <1>3 DEF Time
  <2>5. QED
    BY <2>2, <2>3, <2>4 DEF CacheBuilt
<1>5. CASE Tick \/ UNCHANGED vars
  <2>1. UNCHANGED <<reg, cache>> /\ now' \in Nat /\ now <= now'
    BY <1>5, <1>1 DEF Tick, vars, Time
  <2>2. \A u \in 0 .. now : BuiltEntry(u)' = BuiltEntry(u) /\ u \in 0 .. now'
    BY <2>1, <1>1, <1>3 DEF Time
  <2>3. QED
    BY <2>1, <2>2 DEF CacheBuilt
<1>6. QED
  BY <1>2, <1>4, <1>5 DEF Next, AddClient, ReconcileClient, UnregisterClient,
     SetModelQuotaExceeded, ClearModelQuotaExceeded, SuspendClientModel, ResumeClientModel,
     CleanupExpiredQuotas

\* A listing served from the cache is what a rebuild would give now, for any
\* clients, models, handlers, windows and clocks.
THEOREM CacheAlwaysCoherent == Spec => []CacheCoherent
<1>1. Init => CacheBuilt
  BY DEF Init, CacheBuilt, NoEntry
<1>2. QED
  BY <1>1, TypeCorrect, CacheBuiltStep, CacheBuiltCoheres, PTL DEF Spec

(***************************************************************************)
(* A rebound client starts afresh.                                         *)
(***************************************************************************)
Fresh(r, c) == r.quota[c] = NoTime /\ r.susp[c] = "none"

LEMMA RemoveStartsFresh ==
  ASSUME NEW r \in Registration, NEW c \in Clients, NEW p \in ProvidersOrNone, NEW n \in Nat,
         n # 0, \A q \in Providers : Share(q, p, n) <= r.prov[q]
  PROVE  Fresh(RemoveRegistration(r, c, p, n), c)
<1> USE ConstantsAssumption
<1>1. CASE r.count <= n
  BY <1>1 DEF RemoveRegistration, NoReg, Fresh
<1>2. CASE ~(r.count <= n)
  <2> DEFINE t == LeaveProvider(r, p, n)
  <2>1. t \in Registration
    BY LeaveProviderFacts
  <2>2. RemoveRegistration(r, c, p, n)
          = [t EXCEPT !.count = r.count - n, !.quota[c] = NoTime, !.susp[c] = "none"]
    BY <1>2 DEF RemoveRegistration
  <2> HIDE DEF t
  <2>3. QED
    BY <2>1, <2>2 DEF Registration, Fresh
<1>3. QED
  BY <1>1, <1>2

LEMMA RefreshClears ==
  ASSUME NEW r \in Registration, NEW c \in Clients, NEW p0, NEW p1, NEW old, NEW new,
         new # 0, r.count # 0
  PROVE  Fresh(RefreshBinding(r, c, p0, p1, old, new), c)
BY DEF RefreshBinding, Registration, Fresh

\* Whether it keeps a model, gets it or loses it, the client has no mark there.
LEMMA ReconcileStartsFresh ==
  ASSUME NEW r \in Registration, NEW c \in Clients,
         NEW p0 \in ProvidersOrNone, NEW p1 \in ProvidersOrNone,
         NEW old \in Nat, NEW new \in Nat, old <= r.count, old > 0 \/ new > 0,
         \A q \in Providers : Share(q, p0, old) <= r.prov[q],
         old = r.count => \A q \in Providers : r.prov[q] = Share(q, p0, old)
  PROVE  Fresh(Reconcile(r, c, p0, p1, old, new), c)
<1> DEFINE s == Reconcile(r, c, p0, p1, old, new)
           moved == MoveOverlap(r, p0, p1, old, new)
           removed == RemoveRegistration(moved, c, p0, Monus(old, new))
           added == AddRegistration(removed, p1, Monus(new, old))
<1> USE ConstantsAssumption
<1>1. s = RefreshBinding(added, c, p0, p1, old, new)
  BY DEF Reconcile
<1>0. moved \in Registration /\ removed \in Registration /\ added \in Registration
  BY ReconcileParts
<1>2. s \in Registration /\ s.count = r.count - old + new /\ r.count \in Nat
  <2>1. r.count \in Nat
    BY DEF Registration
  <2>2. QED
    BY <2>1, ReconcileFacts
<1>3. CASE new = 0
  <2>1. moved = r /\ Monus(old, new) = old /\ Monus(new, old) = 0
    BY <1>3 DEF MoveOverlap, Monus
  <2>2. Fresh(removed, c)
    BY <2>1, <1>3, RemoveStartsFresh
  <2>3. added.quota = removed.quota /\ added.susp = removed.susp
    BY <1>0 DEF AddRegistration, Registration
  <2>4. s = added
    BY <1>1, <1>3 DEF RefreshBinding
  <2>5. QED
    BY <2>2, <2>3, <2>4 DEF Fresh
<1>4. CASE new # 0
  <2>1. CASE added.count = 0
    <3>1. s = added
      BY <1>1, <2>1 DEF RefreshBinding
    <3>2. s.count > 0
      BY <1>2, <1>4
    <3>3. QED
      BY <2>1, <3>1, <3>2
  <2>2. CASE added.count # 0
    BY <1>0, <1>1, <1>4, <2>2, RefreshClears
  <2>3. QED
    BY <2>1, <2>2
<1>5. QED
  BY <1>3, <1>4

\* No operation on one registration marks anybody: who has no mark before has
\* none after it.
StaysFresh(r, s) == \A d \in Clients : Fresh(r, d) => Fresh(s, d)

LEMMA RemoveMarksNobody ==
  ASSUME NEW r \in Registration, NEW c \in Clients, NEW p \in ProvidersOrNone, NEW n \in Nat,
         \A q \in Providers : Share(q, p, n) <= r.prov[q]
  PROVE  StaysFresh(r, RemoveRegistration(r, c, p, n))
<1>1. CASE n = 0
  BY <1>1 DEF RemoveRegistration, StaysFresh
<1>2. CASE n # 0 /\ r.count <= n
  BY <1>2 DEF RemoveRegistration, NoReg, Fresh, StaysFresh
<1>3. CASE n # 0 /\ ~(r.count <= n)
  <2> DEFINE t == LeaveProvider(r, p, n)
  <2>1. t \in Registration /\ t.quota = r.quota /\ t.susp = r.susp
    <3>1. t \in Registration
      BY LeaveProviderFacts
    <3>2. QED
      BY <3>1 DEF LeaveProvider, Registration
  <2>2. RemoveRegistration(r, c, p, n)
          = [t EXCEPT !.count = r.count - n, !.quota[c] = NoTime, !.susp[c] = "none"]
    BY <1>3 DEF RemoveRegistration
  <2> HIDE DEF t
  <2>3. QED
    BY <2>1, <2>2 DEF Registration, Fresh, StaysFresh
<1>4. QED
  BY <1>1, <1>2, <1>3

LEMMA ReconcileMarksNobody ==
  ASSUME NEW r \in Registration, NEW c \in Clients,
         NEW p0 \in ProvidersOrNone, NEW p1 \in ProvidersOrNone,
         NEW old \in Nat, NEW new \in Nat, old <= r.count,
         \A q \in Providers : Share(q, p0, old) <= r.prov[q],
         old = r.count => \A q \in Providers : r.prov[q] = Share(q, p0, old)
  PROVE  StaysFresh(r, Reconcile(r, c, p0, p1, old, new))
<1> DEFINE moved == MoveOverlap(r, p0, p1, old, new)
           removed == RemoveRegistration(moved, c, p0, Monus(old, new))
           added == AddRegistration(removed, p1, Monus(new, old))
<1> USE ConstantsAssumption
<1>1. moved \in Registration /\ removed \in Registration /\ added \in Registration
  BY ReconcileParts
<1>2. moved.quota = r.quota /\ moved.susp = r.susp
  BY DEF MoveOverlap, LeaveProvider, Registration
<1>3. StaysFresh(r, moved)
  BY <1>2 DEF StaysFresh, Fresh
<1>4. StaysFresh(moved, removed)
  <2>1. \A q \in Providers :
          moved.prov[q] = r.prov[q] - Share(q, p0, Overlap(p0, p1, old, new))
    BY MoveOverlapFacts
  <2>2. \A q \in Providers : Share(q, p0, Monus(old, new)) <= moved.prov[q]
    <3>1. \A q \in Providers : r.prov[q] \in Nat
      BY DEF Registration
    <3>2. QED
      BY <2>1, <3>1 DEF Share, Overlap, Monus, Least
  <2>3. Monus(old, new) \in Nat
    BY DEF Monus
  <2> HIDE DEF moved
  <2>4. QED
    BY <1>1, <2>2, <2>3, RemoveMarksNobody
<1>5. StaysFresh(removed, added)
  <2> HIDE DEF removed
  <2>1. added.quota = removed.quota /\ added.susp = removed.susp
    BY <1>1 DEF AddRegistration, Registration
  <2>2. QED
    BY <2>1 DEF StaysFresh, Fresh
<1>6. StaysFresh(added, RefreshBinding(added, c, p0, p1, old, new))
  <2> HIDE DEF added
  <2>1. QED
    BY <1>1 DEF RefreshBinding, Registration, StaysFresh, Fresh
<1>7. QED
  BY <1>3, <1>4, <1>5, <1>6 DEF Reconcile, StaysFresh

\* A client that registers again, with whatever list and provider, has no mark
\* on a model of the old list or the new one; nobody else gets one.
LEMMA ReconcileFresh ==
  ASSUME IInv, RebindStartsFresh, NEW c \in Clients, NEW p \in ProvidersOrNone,
         NEW bag \in Bags, ReconcileClient(c, p, bag)
  PROVE  RebindStartsFresh'
<1> SUFFICES ASSUME NEW d \in Clients, NEW m \in Models, ~Fresh(reg'[m], d)
             PROVE  <<d, m>> \in marked'
  BY DEF RebindStartsFresh, Fresh
<1>1. /\ clientModels \in [Clients -> Bags]
      /\ clientProvider \in [Clients -> ProvidersOrNone]
  BY DEF IInv, TypeOK
<1>2. /\ reg'[m] = Reconcile(reg[m], c, clientProvider[c], p, clientModels[c][m], bag[m])
      /\ marked' = marked \ Listing(c, bag)
  BY DEF ReconcileClient
<1>3. bag[m] \in Nat /\ clientModels[c][m] \in Nat
  BY <1>1 DEF Bags
<1>4. StaysFresh(reg[m], reg'[m])
  BY <1>2, <1>3, HelpersApply, ReconcileMarksNobody
<1>5. <<d, m>> \in marked
  BY <1>4 DEF StaysFresh, RebindStartsFresh, Fresh
<1>6. CASE <<d, m>> \in Listing(c, bag)
  <2>1. d = c /\ (clientModels[c][m] > 0 \/ bag[m] > 0)
    BY <1>6 DEF Listing
  <2>2. QED
    BY <1>2, <1>3, <2>1, HelpersApply, ReconcileStartsFresh
<1>7. QED
  BY <1>2, <1>5, <1>6

LEMMA UnregisterFresh ==
  ASSUME IInv, RebindStartsFresh, NEW c \in Clients, UnregisterClient(c)
  PROVE  RebindStartsFresh'
<1> SUFFICES ASSUME NEW d \in Clients, NEW m \in Models, ~Fresh(reg'[m], d)
             PROVE  <<d, m>> \in marked'
  BY DEF RebindStartsFresh, Fresh
<1>1. clientModels \in [Clients -> Bags]
  BY DEF IInv, TypeOK
<1>2. /\ reg'[m] = RemoveRegistration(reg[m], c, clientProvider[c], clientModels[c][m])
      /\ marked' = marked \ Listing(c, EmptyBag)
  BY DEF UnregisterClient
<1>3. clientModels[c][m] \in Nat
  BY <1>1 DEF Bags
<1>4. StaysFresh(reg[m], reg'[m])
  BY <1>2, <1>3, HelpersApply, RemoveMarksNobody
<1>5. <<d, m>> \in marked
  BY <1>4 DEF StaysFresh, RebindStartsFresh, Fresh
<1>6. CASE <<d, m>> \in Listing(c, EmptyBag)
  <2>1. d = c /\ clientModels[c][m] # 0
    BY <1>3, <1>6 DEF Listing, EmptyBag
  <2>2. QED
    BY <1>2, <1>3, <2>1, HelpersApply, RemoveStartsFresh
<1>7. QED
  BY <1>2, <1>5, <1>6

LEMMA MarkFresh ==
  ASSUME IInv, RebindStartsFresh, NEW c \in Clients, NEW m \in Models,
         \/ SetModelQuotaExceeded(c, m)
         \/ ClearModelQuotaExceeded(c, m)
         \/ \E why \in {"quota", "other"} : SuspendClientModel(c, m, why)
         \/ ResumeClientModel(c, m)
  PROVE  RebindStartsFresh'
<1>1. reg \in [Models -> Registration]
  BY DEF IInv, TypeOK
<1>2. CASE SetModelQuotaExceeded(c, m)
  BY <1>1, <1>2 DEF SetModelQuotaExceeded, Registration, RebindStartsFresh
<1>3. CASE ClearModelQuotaExceeded(c, m)
  BY <1>1, <1>3 DEF ClearModelQuotaExceeded, Registration, RebindStartsFresh
<1>4. CASE \E why \in {"quota", "other"} : SuspendClientModel(c, m, why)
  BY <1>1, <1>4 DEF SuspendClientModel, Registration, RebindStartsFresh
<1>5. CASE ResumeClientModel(c, m)
  BY <1>1, <1>5 DEF ResumeClientModel, Registration, RebindStartsFresh
<1>6. QED
  BY <1>2, <1>3, <1>4, <1>5

LEMMA AddFresh ==
  ASSUME IInv, RebindStartsFresh, NEW c \in Clients, NEW p \in ProvidersOrNone,
         NEW bag \in Bags, AddClient(c, p, bag)
  PROVE  RebindStartsFresh'
<1>1. reg \in [Models -> Registration] /\ marked' = marked
  BY DEF IInv, TypeOK, AddClient
<1>2. ASSUME NEW m \in Models
      PROVE  reg'[m].quota = reg[m].quota /\ reg'[m].susp = reg[m].susp
  <2>1. reg'[m] = AddRegistration(reg[m], p, bag[m]) /\ reg[m] \in Registration
    BY <1>1 DEF AddClient
  <2>2. QED
    BY <2>1 DEF AddRegistration, Registration
<1>3. QED
  BY <1>1, <1>2 DEF RebindStartsFresh

LEMMA CleanupFresh ==
  ASSUME IInv, RebindStartsFresh, CleanupExpiredQuotas
  PROVE  RebindStartsFresh'
<1> DEFINE stale(m, c) == reg[m].quota[c] # NoTime /\ ~InQuotaWindow(reg[m], c, now)
           swept(m) == [c \in Clients |-> IF stale(m, c) THEN NoTime ELSE reg[m].quota[c]]
<1>1. /\ reg \in [Models -> Registration]
      /\ marked' = marked
      /\ reg' = [m \in Models |-> [reg[m] EXCEPT !.quota = swept(m)]]
  BY DEF IInv, TypeOK, CleanupExpiredQuotas
<1>2. ASSUME NEW m \in Models, NEW c \in Clients
      PROVE  Fresh(reg[m], c) => Fresh(reg'[m], c)
  <2>1. reg[m] \in Registration /\ reg'[m] = [reg[m] EXCEPT !.quota = swept(m)]
    BY <1>1
  <2>2. swept(m)[c] \in {NoTime, reg[m].quota[c]}
    OBVIOUS
  <2> HIDE DEF swept
  <2>3. QED
    BY <2>1, <2>2 DEF Registration, Fresh
<1>3. QED
  BY <1>1, <1>2 DEF RebindStartsFresh, Fresh

\* For any clients, models and providers, and whatever a client registers again
\* with, its old lists and provider included, every mark of it on a model was set
\* after it last re-registered or left with that model (model_registry.go:395-397).
THEOREM RebindsStartFresh == Spec => []RebindStartsFresh
<1>1. Init => RebindStartsFresh
  BY DEF Init, NoReg, RebindStartsFresh
<1>2. ASSUME IInv, RebindStartsFresh, [Next]_vars PROVE RebindStartsFresh'
  <2>1. CASE \E c \in Clients, p \in ProvidersOrNone, bag \in Bags :
               AddClient(c, p, bag) \/ ReconcileClient(c, p, bag)
    BY <1>2, <2>1, AddFresh, ReconcileFresh
  <2>2. CASE \E c \in Clients : UnregisterClient(c)
    BY <1>2, <2>2, UnregisterFresh
  <2>3. CASE \E c \in Clients, m \in Models :
               \/ SetModelQuotaExceeded(c, m)
               \/ ClearModelQuotaExceeded(c, m)
               \/ \E why \in {"quota", "other"} : SuspendClientModel(c, m, why)
               \/ ResumeClientModel(c, m)
    BY <1>2, <2>3, MarkFresh
  <2>4. CASE CleanupExpiredQuotas
    BY <1>2, <2>4, CleanupFresh
  <2>5. CASE UNCHANGED <<reg, marked>>
    BY <1>2, <2>5 DEF RebindStartsFresh
  <2>6. QED
    BY <1>2, <2>1, <2>2, <2>3, <2>4, <2>5 DEF Next, vars, GetAvailableModels, Tick
<1>3. QED
  BY <1>1, <1>2, InductiveInvariant, PTL DEF Spec

(***************************************************************************)
(* AuthRegistration: any models, versions, requests and catalogues.        *)
(***************************************************************************)
Auths ==
  {a \in [known : BOOLEAN, disabled : BOOLEAN, version : Versions \cup {NoVersion},
          states : [AuthModels -> {"none", "clean", "bad"}]] : a.disabled \/ a.version \in Versions}
Steps ==
  {"idle", "resolve", "register", "supported", "reconcile", "reupsert", "entry", "upsert",
   "lookup", "disable", "update", "updated", "latest", "drop", "pending", "refreshing"}
Jobs == [at : Steps, auth : Auths, models : SUBSET AuthModels, again : BOOLEAN]

RegistrationTyped ==
  /\ core \in Auths /\ registered \subseteq AuthModels
  /\ catalog \in 0 .. MaxCatalog /\ notified \in 0 .. MaxCatalog /\ notified <= catalog
  /\ queue \in Seq(Updates)
  /\ work \in [Workers -> Jobs]
  /\ work["token"].at \in {"idle", "pending", "refreshing", "upsert"}

\* Nobody has anything to do with a credential that was never registered, but
\* the consumer that is to register it.
Unborn ==
  /\ ~core.known => /\ core.disabled /\ ~sched.in
                    /\ work["updater"].at \in {"idle", "lookup", "update"}
                    /\ work["catalog"].at = "idle" /\ work["token"].at = "idle"
                    /\ \A r \in Requests : req[r].at = "idle"
  /\ work["updater"].at \in {"update", "disable"} => work["updater"].auth.known
  /\ work["token"].at = "refreshing" => work["token"].auth.known

\* Whoever changes the registry upserts the credential afterwards.
Upserting(w) ==
  /\ work[w].at \notin {"idle", "pending", "refreshing"}
  /\ work[w].at = "lookup" => core.known
Sees == sched.in /\ sched.supported # registered => \E w \in Workers : Upserting(w)

SameConfig(a, b) == a.disabled = b.disabled /\ a.version = b.version
Wanted == IF core.disabled THEN {} ELSE ModelsOf(core.version, catalog)

\* No callback is to come that the registry needs.
Current == notified = catalog \/ core.disabled

\* Without a race the updater is alone, or the callback and the token refresh
\* are at work on an enabled credential whose configuration nobody changes;
\* what they hold has that configuration, and what they have resolved is wanted.
Calm ==
  /\ work["updater"].at # "idle" => work["catalog"].at = "idle" /\ work["token"].at = "idle"
  /\ \A w \in {"catalog", "token"} :
       work[w].at # "idle" => core.known /\ ~core.disabled /\ work[w].at # "drop"
  /\ \A w \in Workers :
       work[w].at \in {"updated", "resolve", "refreshing"} => SameConfig(work[w].auth, core)
  /\ \A w \in Workers : work[w].at = "register" /\ Current => work[w].models = Wanted
Cleared ==
  /\ work["updater"].at \in {"lookup", "disable"} => registered = {}
  /\ work["updater"].at = "disable" => work["updater"].auth.disabled
Right ==
  /\ Current
  /\ work["updater"].at \notin {"update", "updated", "resolve", "register", "lookup", "disable"}
  /\ work["catalog"].at \notin {"resolve", "register"}
  => registered = Wanted
Follows == ~raced => Calm /\ Cleared /\ Right

RegistrationInv == RegistrationTyped /\ Unborn /\ Sees /\ Follows

LEMMA NoAuthFacts ==
  /\ NoStates \in [AuthModels -> {"none", "clean", "bad"}]
  /\ NoAuth \in Auths /\ NoAuth.disabled /\ ~NoAuth.known
  /\ Idle \in Jobs /\ Idle.at = "idle"
BY DEF NoStates, NoAuth, Auths, Idle, Jobs, Steps

LEMMA RegistrationInitInv == RegistrationInit => RegistrationInv
<1> SUFFICES ASSUME RegistrationInit PROVE RegistrationInv
  OBVIOUS
<1> USE DEF RegistrationInit
<1>1. work = [w \in Workers |-> Idle] /\ \A w \in Workers : work[w].at = "idle"
  BY NoAuthFacts
<1>2. {"updater", "catalog", "token"} = Workers
  BY DEF Workers
<1>3. RegistrationTyped
  BY <1>1, <1>2, NoAuthFacts, RegistrationAssumption DEF RegistrationTyped
<1>4. \A r \in Requests : req[r].at = "idle"
  BY DEF Silent
<1>5. Unborn /\ Sees /\ Follows
  BY <1>1, <1>2, <1>4, NoAuthFacts DEF Unborn, Sees, Follows, Calm, Cleared, Right, Wanted
<1>6. QED
  BY <1>3, <1>5 DEF RegistrationInv

(***************************************************************************)
(* What the helpers return.                                                *)
(***************************************************************************)
LEMMA UpsertedFacts ==
  ASSUME NEW auth, auth.disabled \in BOOLEAN
  PROVE  Upserted(auth).in => Upserted(auth).supported = registered
BY DEF Upserted

LEMMA InheritingFacts ==
  ASSUME NEW auth \in Auths, NEW existing \in Auths
  PROVE  /\ Inheriting(auth, existing) \in Auths /\ SameConfig(Inheriting(auth, existing), auth)
         /\ Inheriting(auth, existing).known = auth.known
BY DEF Inheriting, Auths, SameConfig

LEMMA ReconciledFacts ==
  ASSUME NEW auth \in Auths, NEW models
  PROVE  /\ Reconciled(auth, models) \in Auths /\ SameConfig(Reconciled(auth, models), auth)
         /\ Reconciled(auth, models).known = auth.known
<1> DEFINE states == [m \in AuthModels |->
                        IF auth.states[m] = "none" \/ m \notin models THEN "none" ELSE "clean"]
<1>1. Reconciled(auth, models) = [auth EXCEPT !.states = states]
  BY DEF Reconciled
<1>2. states \in [AuthModels -> {"none", "clean", "bad"}]
  OBVIOUS
<1> HIDE DEF states
<1>3. QED
  BY <1>1, <1>2 DEF Auths, SameConfig

LEMMA ResolvedFacts ==
  ASSUME RegistrationTyped, NEW auth \in Auths
  PROVE  /\ Resolved(auth) \subseteq AuthModels
         /\ SameConfig(auth, core) => Resolved(auth) = Wanted
<1>1. auth.disabled \in BOOLEAN /\ (auth.disabled \/ auth.version \in Versions)
  BY DEF Auths
<1>2. ~auth.disabled => ModelsOf(auth.version, catalog) \subseteq AuthModels
  BY <1>1, RegistrationAssumption DEF RegistrationTyped
<1>3. Resolved(auth) \subseteq AuthModels
  BY <1>1, <1>2 DEF Resolved
<1>4. ASSUME SameConfig(auth, core) PROVE Resolved(auth) = Wanted
  <2>1. CASE auth.disabled
    BY <1>4, <2>1 DEF SameConfig, Resolved, Wanted
  <2>2. CASE ~auth.disabled
    <3>1. ~core.disabled /\ auth.version = core.version
      BY <1>4, <2>2 DEF SameConfig
    <3>2. Resolved(auth) = ModelsOf(auth.version, catalog)
      BY <2>2 DEF Resolved
    <3>3. Wanted = ModelsOf(core.version, catalog)
      BY <3>1 DEF Wanted
    <3>4. QED
      BY <3>1, <3>2, <3>3
  <2>3. QED
    BY <1>1, <2>1, <2>2
<1>5. QED
  BY <1>3, <1>4

\* A worker does a step, the others stay.
Turn(w, job) ==
  /\ job \in Jobs /\ work' = [work EXCEPT ![w] = job]
  /\ w = "token" => job.at \in {"idle", "pending", "refreshing", "upsert"}

LEMMA TurnFacts ==
  ASSUME RegistrationTyped, NEW w \in Workers, NEW job, Turn(w, job)
  PROVE  /\ work' \in [Workers -> Jobs] /\ work'[w] = job
         /\ \A v \in Workers \ {w} : work'[v] = work[v]
         /\ work'["token"].at \in {"idle", "pending", "refreshing", "upsert"}
         /\ Overlapping(work') \in BOOLEAN
BY DEF Turn, RegistrationTyped, Workers, Overlapping

LEMMA GotoFacts ==
  ASSUME RegistrationTyped, NEW w \in Workers, NEW l \in Steps, Goto(w, l),
         w = "token" => l \in {"idle", "pending", "refreshing", "upsert"}
  PROVE  \E job \in Jobs : /\ Turn(w, job) /\ job.at = l /\ job.auth = work[w].auth
                           /\ job.models = work[w].models
<1> DEFINE job == [work[w] EXCEPT !.at = l]
<1>1. job \in Jobs /\ job.at = l /\ job.auth = work[w].auth /\ job.models = work[w].models
  BY DEF RegistrationTyped, Jobs
<1>2. work' = [work EXCEPT ![w] = job]
  BY DEF Goto
<1>3. QED
  BY <1>1, <1>2 DEF Turn

LEMMA GotoWithFacts ==
  ASSUME RegistrationTyped, NEW w \in Workers, NEW l \in Steps, NEW auth \in Auths,
         GotoWith(w, l, auth), w = "token" => l \in {"idle", "pending", "refreshing", "upsert"}
  PROVE  \E job \in Jobs : Turn(w, job) /\ job.at = l /\ job.auth = auth
<1> DEFINE job == [work[w] EXCEPT !.at = l, !.auth = auth, !.models = {}]
<1>1. job \in Jobs /\ job.at = l /\ job.auth = auth
  BY DEF RegistrationTyped, Jobs
<1>2. work' = [work EXCEPT ![w] = job]
  BY DEF GotoWith
<1>3. QED
  BY <1>1, <1>2 DEF Turn

(***************************************************************************)
(* What a step of a worker leaves of the invariant.                        *)
(***************************************************************************)
LEMMA TypedTurn ==
  ASSUME RegistrationTyped, NEW w \in Workers, NEW job, Turn(w, job),
         core' \in Auths, registered' \subseteq AuthModels,
         catalog' = catalog, notified' = notified, queue' \in Seq(Updates)
  PROVE  RegistrationTyped'
BY TurnFacts DEF RegistrationTyped

LEMMA BornTurn ==
  ASSUME RegistrationTyped, Unborn, NEW w \in Workers, NEW job, Turn(w, job), core'.known,
         job.at \in {"update", "disable", "refreshing"} => job.auth.known
  PROVE  Unborn'
<1>1. work'[w] = job /\ \A v \in Workers \ {w} : work'[v] = work[v]
  BY TurnFacts
<1>2. ASSUME NEW v \in Workers, work'[v].at \in {"update", "disable", "refreshing"},
             work[v].at \in {"update", "disable", "refreshing"} => work[v].auth.known
      PROVE  work'[v].auth.known
  BY <1>1, <1>2
<1>3. QED
  BY <1>1 DEF Unborn, Workers

LEMMA SeesTurn ==
  ASSUME RegistrationTyped, Sees, NEW w \in Workers, NEW job, Turn(w, job), core.known => core'.known,
         \/ job.at \notin {"idle", "pending", "refreshing"} /\ (job.at = "lookup" => core'.known)
         \/ work[w].at \in {"idle", "pending", "refreshing"} /\ UNCHANGED <<sched, registered>>
         \/ sched'.in => sched'.supported = registered'
  PROVE  Sees'
<1>1. work'[w] = job /\ \A v \in Workers \ {w} : work'[v] = work[v]
  BY TurnFacts
<1>2. CASE job.at \notin {"idle", "pending", "refreshing"} /\ (job.at = "lookup" => core'.known)
  BY <1>1, <1>2 DEF Sees, Upserting
<1>3. CASE work[w].at \in {"idle", "pending", "refreshing"} /\ UNCHANGED <<sched, registered>>
  <2>1. ASSUME NEW v \in Workers, Upserting(v) PROVE Upserting(v)'
    BY <1>1, <1>3, <2>1 DEF Upserting
  <2>2. QED
    BY <1>3, <2>1 DEF Sees
<1>4. CASE sched'.in => sched'.supported = registered'
  BY <1>4 DEF Sees
<1>5. QED
  BY <1>2, <1>3, <1>4

\* A worker in one of these places may leave the registry to be replaced.
Exempt(w, at) ==
  \/ w = "updater" /\ at \in {"update", "updated", "resolve", "register", "lookup", "disable"}
  \/ w = "catalog" /\ at \in {"resolve", "register"}

LEMMA FollowsTurn ==
  ASSUME RegistrationTyped, Follows, NEW w \in Workers, NEW job, Turn(w, job), Watch,
         core.known => core'.known, catalog' = catalog, notified' = notified,
         ~raced =>
           /\ SameConfig(core', core) /\ (work[w].at # "idle" \/ job.at # "idle")
           /\ w # "updater" /\ job.at # "idle" => core.known /\ ~core.disabled /\ job.at # "drop"
           /\ w = "updater" => /\ work[w].at # "idle"
                               /\ job.at \in {"lookup", "disable"} => registered' = {}
                               /\ job.at = "disable" => job.auth.disabled
           /\ job.at \in {"updated", "resolve", "refreshing"} => SameConfig(job.auth, core)
           /\ job.at = "register" /\ Current => job.models = Wanted
           /\ \/ registered' = registered /\ (Exempt(w, work[w].at) => Exempt(w, job.at))
              \/ Current => registered' = Wanted
  PROVE  Follows'
<1> SUFFICES ASSUME ~raced' PROVE (Calm /\ Cleared /\ Right)'
  BY DEF Follows
<1>1. ~raced /\ ~Overlapping(work') /\ Calm /\ Cleared /\ Right
  BY TurnFacts DEF Watch, Follows
<1>2. /\ work'[w] = job /\ \A v \in Workers \ {w} : work'[v] = work[v]
      /\ {"updater", "catalog", "token"} = Workers
  BY TurnFacts DEF Workers
<1>3. SameConfig(core', core) /\ Wanted' = Wanted /\ (Current' <=> Current)
  BY <1>1 DEF SameConfig, Wanted, Current
<1>4. Calm'
  <2>1. work'["updater"].at # "idle" => work'["catalog"].at = "idle" /\ work'["token"].at = "idle"
    BY <1>1, <1>2 DEF Overlapping
  <2>2. ASSUME NEW v \in {"catalog", "token"}, work'[v].at # "idle"
        PROVE  core'.known /\ ~core'.disabled /\ work'[v].at # "drop"
    <3>1. core.known /\ ~core.disabled /\ work'[v].at # "drop"
      BY <1>1, <1>2, <2>2 DEF Calm
    <3>2. QED
      BY <1>3, <3>1 DEF SameConfig
  <2>3. ASSUME NEW v \in Workers, work'[v].at \in {"updated", "resolve", "refreshing"}
        PROVE  SameConfig(work'[v].auth, core')
    <3>1. SameConfig(work'[v].auth, core)
      BY <1>1, <1>2, <2>3 DEF Calm
    <3>2. QED
      BY <1>3, <3>1 DEF SameConfig
  <2>4. ASSUME NEW v \in Workers, work'[v].at = "register", Current
        PROVE  work'[v].models = Wanted
    BY <1>1, <1>2, <2>4 DEF Calm
  <2>5. QED
    BY <1>3, <2>1, <2>2, <2>3, <2>4 DEF Calm
<1>5. Cleared'
  <2>1. CASE w = "updater"
    BY <1>1, <1>2, <2>1 DEF Cleared
  <2>2. CASE w # "updater"
    <3>1. SUFFICES ASSUME work'["updater"].at \in {"lookup", "disable"} PROVE FALSE
      BY DEF Cleared
    <3>2. work["updater"].at # "idle" /\ work["updater"] = work'["updater"]
      BY <1>2, <2>2, <3>1
    <3>3. work[w].at = "idle"
      BY <1>1, <1>2, <2>2, <3>2 DEF Calm
    <3>4. work'[w].at = "idle"
      BY <1>1, <1>2, <2>2, <3>2 DEF Overlapping
    <3>5. QED
      BY <1>1, <1>2, <2>2, <3>2, <3>3, <3>4
  <2>3. QED
    BY <2>1, <2>2
<1>6. Right'
  <2>1. SUFFICES ASSUME Current, ~Exempt("updater", work'["updater"].at),
                        ~Exempt("catalog", work'["catalog"].at)
                 PROVE  registered' = Wanted
    BY <1>3 DEF Right, Exempt
  <2>2. CASE Current => registered' = Wanted
    BY <2>1, <2>2
  <2>3. CASE registered' = registered /\ (Exempt(w, work[w].at) => Exempt(w, job.at))
    <3>1. ASSUME NEW v \in {"updater", "catalog"} PROVE ~Exempt(v, work[v].at)
      BY <1>2, <2>1, <2>3
    <3>2. QED
      BY <1>1, <2>1, <2>3, <3>1 DEF Right, Exempt
  <2>4. QED
    BY <1>1, <2>2, <2>3
<1>7. QED
  BY <1>4, <1>5, <1>6

LEMMA BusyFacts ==
  ASSUME RegistrationInv, NEW w \in Workers, work[w].at \notin {"idle", "lookup", "update"}
  PROVE  /\ core.known /\ work[w].auth \in Auths /\ work[w].models \subseteq AuthModels
         /\ ~raced /\ w # "updater" => ~core.disabled /\ work[w].at # "drop"
<1>1. core.known
  BY DEF RegistrationInv, Unborn, Workers
<1>2. work[w].auth \in Auths /\ work[w].models \subseteq AuthModels
  BY DEF RegistrationInv, RegistrationTyped, Jobs
<1>3. ~raced /\ w # "updater" => ~core.disabled /\ work[w].at # "drop"
  BY DEF RegistrationInv, Follows, Calm, Workers
<1>4. QED
  BY <1>1, <1>2, <1>3

(***************************************************************************)
(* The steps of registration.                                              *)
(***************************************************************************)
LEMMA ResolveInv ==
  ASSUME RegistrationInv, NEW w \in Workers, Resolve(w)
  PROVE  RegistrationInv'
<1>1. RegistrationTyped /\ Unborn /\ Sees /\ Follows
  BY DEF RegistrationInv
<1>2. /\ work[w].at = "resolve" /\ Watch
      /\ UNCHANGED <<catalog, notified, queue, core, registered, sched>>
  BY DEF Resolve, Stable
<1>3. core.known /\ work[w].auth \in Auths /\ (~raced /\ w # "updater" => ~core.disabled)
  BY <1>2, BusyFacts
<1>4. w # "token"
  BY <1>1, <1>2 DEF RegistrationTyped
<1> DEFINE models == Resolved(work[w].auth)
           job == [work[w] EXCEPT !.at = "register", !.auth = NoAuth, !.models = models]
<1>5. models \subseteq AuthModels /\ (~raced => models = Wanted)
  <2>1. ~raced => SameConfig(work[w].auth, core)
    BY <1>1, <1>2 DEF Follows, Calm
  <2>2. QED
    BY <1>1, <1>3, <2>1, ResolvedFacts
<1>6. work' = [work EXCEPT ![w] = job]
  BY DEF Resolve
<1> HIDE DEF models
<1>7. job \in Jobs /\ job.at = "register" /\ job.models = models
  BY <1>1, <1>5, NoAuthFacts DEF RegistrationTyped, Jobs, Steps
<1> HIDE DEF job
<1>8. Turn(w, job)
  BY <1>4, <1>6, <1>7 DEF Turn
<1>9. RegistrationTyped'
  BY <1>1, <1>2, <1>8, TypedTurn DEF RegistrationTyped
<1>10. Unborn' /\ Sees'
  BY <1>1, <1>2, <1>3, <1>7, <1>8, BornTurn, SeesTurn
<1>11. Follows'
  <2>1. Exempt(w, "resolve") => Exempt(w, "register")
    BY DEF Exempt
  <2>2. SameConfig(core', core)
    BY <1>2 DEF SameConfig
  <2>3. QED
    BY <1>1, <1>2, <1>3, <1>5, <1>7, <1>8, <2>1, <2>2, FollowsTurn
<1>12. QED
  BY <1>9, <1>10, <1>11 DEF RegistrationInv

LEMMA RegisterInv ==
  ASSUME RegistrationInv, NEW w \in Workers, Register(w)
  PROVE  RegistrationInv'
<1>1. RegistrationTyped /\ Unborn /\ Sees /\ Follows
  BY DEF RegistrationInv
<1>2. /\ work[w].at = "register" /\ Watch /\ registered' = work[w].models
      /\ UNCHANGED <<catalog, notified, queue, core, sched>>
  BY DEF Register, Stable
<1>3. core.known /\ work[w].models \subseteq AuthModels /\ (~raced /\ w # "updater" => ~core.disabled)
  BY <1>2, BusyFacts
<1>4. w # "token"
  BY <1>1, <1>2 DEF RegistrationTyped
<1>5. PICK job \in Jobs : Turn(w, job) /\ job.at = "supported"
  BY <1>1, <1>4, GotoFacts DEF Register, Steps
<1>6. RegistrationTyped'
  BY <1>1, <1>2, <1>3, <1>5, TypedTurn DEF RegistrationTyped
<1>7. Unborn' /\ Sees'
  BY <1>1, <1>2, <1>3, <1>5, BornTurn, SeesTurn
<1>8. Follows'
  <2>1. ~raced /\ Current => registered' = Wanted
    BY <1>1, <1>2 DEF Follows, Calm
  <2>2. SameConfig(core', core)
    BY <1>2 DEF SameConfig
  <2>3. QED
    BY <1>1, <1>2, <1>3, <1>5, <2>1, <2>2, FollowsTurn
<1>9. QED
  BY <1>6, <1>7, <1>8 DEF RegistrationInv

LEMMA ReadSupportedInv ==
  ASSUME RegistrationInv, NEW w \in Workers, ReadSupported(w)
  PROVE  RegistrationInv'
<1>1. RegistrationTyped /\ Unborn /\ Sees /\ Follows
  BY DEF RegistrationInv
<1>2. /\ work[w].at = "supported" /\ Watch
      /\ UNCHANGED <<catalog, notified, queue, core, registered, sched>>
  BY DEF ReadSupported, Stable
<1>3. core.known /\ (~raced /\ w # "updater" => ~core.disabled)
  BY <1>2, BusyFacts
<1>4. w # "token"
  BY <1>1, <1>2 DEF RegistrationTyped
<1> DEFINE job == [work[w] EXCEPT !.at = "reconcile", !.models = registered]
<1>5. work' = [work EXCEPT ![w] = job]
  BY DEF ReadSupported
<1>6. job \in Jobs /\ job.at = "reconcile"
  BY <1>1 DEF RegistrationTyped, Jobs, Steps
<1> HIDE DEF job
<1>7. Turn(w, job)
  BY <1>4, <1>5, <1>6 DEF Turn
<1>8. RegistrationTyped'
  BY <1>1, <1>2, <1>7, TypedTurn DEF RegistrationTyped
<1>9. Unborn' /\ Sees'
  BY <1>1, <1>2, <1>3, <1>6, <1>7, BornTurn, SeesTurn
<1>10. Follows'
  <2>1. ~Exempt(w, "supported")
    BY DEF Exempt
  <2>2. SameConfig(core', core)
    BY <1>2 DEF SameConfig
  <2>3. QED
    BY <1>1, <1>2, <1>3, <1>6, <1>7, <2>1, <2>2, FollowsTurn
<1>11. QED
  BY <1>8, <1>9, <1>10 DEF RegistrationInv

LEMMA ReconcileStatesInv ==
  ASSUME RegistrationInv, NEW w \in Workers, ReconcileStates(w)
  PROVE  RegistrationInv'
<1>1. RegistrationTyped /\ Unborn /\ Sees /\ Follows
  BY DEF RegistrationInv
<1>2. /\ work[w].at = "reconcile" /\ Watch /\ core' = Reconciled(core, work[w].models)
      /\ UNCHANGED <<catalog, notified, queue, registered, sched>>
  BY DEF ReconcileStates, Stable
<1>3. core.known /\ (~raced /\ w # "updater" => ~core.disabled)
  BY <1>2, BusyFacts
<1>4. w # "token"
  BY <1>1, <1>2 DEF RegistrationTyped
<1>5. core' \in Auths /\ core'.known /\ SameConfig(core', core)
  BY <1>1, <1>2, <1>3, ReconciledFacts DEF RegistrationTyped
<1>6. PICK job \in Jobs : Turn(w, job) /\ job.at \in {"latest", "entry", "reupsert"}
  <2>1. GotoWith(w, AfterReconcile(w), NoAuth) \/ GotoWith(w, "reupsert", core')
    BY DEF ReconcileStates
  <2>2. AfterReconcile(w) \in {"latest", "entry"} /\ {"latest", "entry", "reupsert"} \subseteq Steps
    BY DEF AfterReconcile, Steps
  <2>3. CASE GotoWith(w, AfterReconcile(w), NoAuth)
    BY <1>1, <1>4, <2>2, <2>3, NoAuthFacts, GotoWithFacts
  <2>4. CASE GotoWith(w, "reupsert", core')
    BY <1>1, <1>4, <1>5, <2>2, <2>4, GotoWithFacts
  <2>5. QED
    BY <2>1, <2>3, <2>4
<1>7. RegistrationTyped'
  BY <1>1, <1>2, <1>5, <1>6, TypedTurn DEF RegistrationTyped
<1>8. Unborn' /\ Sees'
  BY <1>1, <1>2, <1>5, <1>6, BornTurn, SeesTurn
<1>9. Follows'
  <2>1. ~Exempt(w, "reconcile")
    BY DEF Exempt
  <2>2. QED
    BY <1>1, <1>2, <1>3, <1>5, <1>6, <2>1, FollowsTurn
<1>10. QED
  BY <1>7, <1>8, <1>9 DEF RegistrationInv

LEMMA UpsertReconciledInv ==
  ASSUME RegistrationInv, NEW w \in Workers, UpsertReconciled(w)
  PROVE  RegistrationInv'
<1>1. RegistrationTyped /\ Unborn /\ Sees /\ Follows
  BY DEF RegistrationInv
<1>2. /\ work[w].at = "reupsert" /\ Watch /\ GotoWith(w, AfterReconcile(w), NoAuth)
      /\ UNCHANGED <<catalog, notified, queue, core, registered>>
  BY DEF UpsertReconciled, Stable
<1>3. core.known /\ (~raced /\ w # "updater" => ~core.disabled)
  BY <1>2, BusyFacts
<1>4. w # "token"
  BY <1>1, <1>2 DEF RegistrationTyped
<1>5. PICK job \in Jobs : Turn(w, job) /\ job.at \in {"latest", "entry"}
  <2>1. AfterReconcile(w) \in {"latest", "entry"} /\ {"latest", "entry"} \subseteq Steps
    BY DEF AfterReconcile, Steps
  <2>2. QED
    BY <1>1, <1>2, <1>4, <2>1, NoAuthFacts, GotoWithFacts
<1>6. RegistrationTyped'
  BY <1>1, <1>2, <1>5, TypedTurn DEF RegistrationTyped
<1>7. Unborn' /\ Sees'
  BY <1>1, <1>2, <1>3, <1>5, BornTurn, SeesTurn
<1>8. Follows'
  <2>1. ~Exempt(w, "reupsert")
    BY DEF Exempt
  <2>2. SameConfig(core', core)
    BY <1>2 DEF SameConfig
  <2>3. QED
    BY <1>1, <1>2, <1>3, <1>5, <2>1, <2>2, FollowsTurn
<1>9. QED
  BY <1>6, <1>7, <1>8 DEF RegistrationInv

LEMMA ReadEntryInv ==
  ASSUME RegistrationInv, NEW w \in Workers, ReadEntry(w)
  PROVE  RegistrationInv'
<1>1. RegistrationTyped /\ Unborn /\ Sees /\ Follows
  BY DEF RegistrationInv
<1>2. /\ work[w].at = "entry" /\ Watch /\ GotoWith(w, "upsert", core)
      /\ UNCHANGED <<catalog, notified, queue, core, registered, sched>>
  BY DEF ReadEntry, Stable
<1>3. core.known /\ (~raced /\ w # "updater" => ~core.disabled)
  BY <1>2, BusyFacts
<1>4. PICK job \in Jobs : Turn(w, job) /\ job.at = "upsert"
  <2>1. core \in Auths /\ "upsert" \in Steps
    BY <1>1 DEF RegistrationTyped, Steps
  <2>2. QED
    BY <1>1, <1>2, <2>1, GotoWithFacts
<1>5. RegistrationTyped'
  BY <1>1, <1>2, <1>4, TypedTurn DEF RegistrationTyped
<1>6. Unborn' /\ Sees'
  BY <1>1, <1>2, <1>3, <1>4, BornTurn, SeesTurn
<1>7. Follows'
  <2>1. ~Exempt(w, "entry")
    BY DEF Exempt
  <2>2. SameConfig(core', core)
    BY <1>2 DEF SameConfig
  <2>3. QED
    BY <1>1, <1>2, <1>3, <1>4, <2>1, <2>2, FollowsTurn
<1>8. QED
  BY <1>5, <1>6, <1>7 DEF RegistrationInv

\* The last step of a registration, of a removal and of a token refresh.
LEMMA UpsertEntryInv ==
  ASSUME RegistrationInv, NEW w \in Workers, UpsertEntry(w)
  PROVE  RegistrationInv'
<1>1. RegistrationTyped /\ Unborn /\ Sees /\ Follows
  BY DEF RegistrationInv
<1>2. /\ work[w].at = "upsert" /\ Watch /\ sched' = Upserted(work[w].auth)
      /\ UNCHANGED <<catalog, notified, queue, core, registered>>
  BY DEF UpsertEntry, Stable
<1>3. core.known /\ work[w].auth \in Auths
  BY <1>2, BusyFacts
<1>4. Turn(w, Idle)
  BY NoAuthFacts DEF UpsertEntry, Turn
<1>5. RegistrationTyped'
  BY <1>1, <1>2, <1>4, TypedTurn DEF RegistrationTyped
<1>6. sched'.in => sched'.supported = registered'
  BY <1>2, <1>3, UpsertedFacts DEF Auths
<1>7. Unborn' /\ Sees'
  BY <1>1, <1>2, <1>3, <1>4, <1>6, NoAuthFacts, BornTurn, SeesTurn
<1>8. Follows'
  <2>1. ~Exempt(w, "upsert")
    BY DEF Exempt
  <2>2. SameConfig(core', core)
    BY <1>2 DEF SameConfig
  <2>3. QED
    BY <1>1, <1>2, <1>4, <2>1, <2>2, NoAuthFacts, FollowsTurn
<1>9. QED
  BY <1>5, <1>7, <1>8 DEF RegistrationInv

(***************************************************************************)
(* Updates.                                                                *)
(***************************************************************************)
LEMMA TakeInv ==
  ASSUME RegistrationInv, Take
  PROVE  RegistrationInv'
<1>1. RegistrationTyped /\ Unborn /\ Sees /\ Follows
  BY DEF RegistrationInv
<1>2. /\ work["updater"].at = "idle" /\ queue # <<>> /\ queue' = Tail(queue)
      /\ raced' = Overlapping(work') /\ UNCHANGED <<core, sched, catalog, notified, req>>
  BY DEF Take
<1>3. Head(queue) \in Updates /\ queue' \in Seq(Updates) /\ "updater" \in Workers
  BY <1>1, <1>2 DEF RegistrationTyped, Workers
<1>4. \E job \in Jobs :
        /\ Turn("updater", job)
        /\ \/ job.at = "lookup" /\ registered' = {}
           \/ job.at = "update" /\ job.auth.known /\ registered' = registered
  <2> DEFINE u == Head(queue)
             auth == [known |-> TRUE, disabled |-> u.disabled, version |-> u.version,
                      states |-> NoStates]
  <2>1. CASE u = Delete
    <3>1. registered' = {} /\ Goto("updater", "lookup") /\ "lookup" \in Steps
      BY <2>1 DEF Take, Steps
    <3>2. QED
      BY <1>1, <1>3, <3>1, GotoFacts
  <2>2. CASE u # Delete
    <3>1. registered' = registered /\ GotoWith("updater", "update", Inheriting(auth, core))
      BY <2>2 DEF Take
    <3>2. auth \in Auths /\ auth.known /\ core \in Auths /\ "update" \in Steps
      <4>1. u.disabled \in BOOLEAN /\ u.version \in Versions
        BY <1>3, <2>2 DEF Updates
      <4>2. QED
        BY <1>1, <4>1, NoAuthFacts DEF Auths, RegistrationTyped, Steps
    <3> HIDE DEF auth
    <3>3. Inheriting(auth, core) \in Auths /\ Inheriting(auth, core).known
      BY <3>2, InheritingFacts
    <3>4. QED
      BY <1>1, <1>3, <3>1, <3>2, <3>3, GotoWithFacts
  <2>3. QED
    BY <2>1, <2>2
<1>5. PICK job \in Jobs :
        /\ Turn("updater", job)
        /\ \/ job.at = "lookup" /\ registered' = {}
           \/ job.at = "update" /\ job.auth.known /\ registered' = registered
  BY <1>4
<1>6. work'["updater"] = job /\ \A v \in Workers \ {"updater"} : work'[v] = work[v]
  BY <1>1, <1>3, <1>5, TurnFacts
<1>7. RegistrationTyped'
  BY <1>1, <1>2, <1>3, <1>5, TypedTurn DEF RegistrationTyped
<1>8. Unborn'
  BY <1>1, <1>2, <1>5, <1>6 DEF Unborn, Workers
<1>9. Sees'
  <2>1. ~core.known => ~sched.in
    BY <1>1 DEF Unborn
  <2>2. QED
    BY <1>1, <1>2, <1>3, <1>5, <2>1, SeesTurn
<1>10. Follows'
  <2>1. ASSUME ~raced' PROVE work'["catalog"].at = "idle" /\ work'["token"].at = "idle"
    BY <1>2, <1>5, <1>6, <2>1 DEF Overlapping
  <2>2. QED
    BY <1>5, <1>6, <2>1 DEF Follows, Calm, Cleared, Right, Workers
<1>11. QED
  BY <1>7, <1>8, <1>9, <1>10 DEF RegistrationInv

LEMMA LookUpInv ==
  ASSUME RegistrationInv, LookUp
  PROVE  RegistrationInv'
<1>1. RegistrationTyped /\ Unborn /\ Sees /\ Follows /\ core \in Auths
  BY DEF RegistrationInv, RegistrationTyped
<1>2. /\ work["updater"].at = "lookup" /\ Watch /\ "updater" \in Workers
      /\ UNCHANGED <<catalog, notified, queue, req, core, registered, sched>>
  BY DEF LookUp, Stable, Workers
<1>3. ~raced => registered = {}
  BY <1>1, <1>2 DEF Follows, Cleared
<1>4. SameConfig(core', core) /\ queue' \in Seq(Updates) /\ registered' \subseteq AuthModels
      /\ core' \in Auths
  BY <1>1, <1>2 DEF SameConfig, RegistrationTyped
<1>5. CASE core.known
  <2> DEFINE auth == [core EXCEPT !.disabled = TRUE]
  <2>1. GotoWith("updater", "disable", auth) /\ "disable" \in Steps
    BY <1>5 DEF LookUp, Steps
  <2>2. auth \in Auths /\ auth.disabled /\ auth.known
    BY <1>1, <1>5 DEF Auths
  <2> HIDE DEF auth
  <2>3. PICK job \in Jobs : Turn("updater", job) /\ job.at = "disable" /\ job.auth = auth
    BY <1>1, <1>2, <2>1, <2>2, GotoWithFacts
  <2>4. RegistrationTyped'
    BY <1>1, <1>2, <1>4, <2>3, TypedTurn
  <2>5. Unborn' /\ Sees'
    BY <1>1, <1>2, <1>5, <2>2, <2>3, BornTurn, SeesTurn
  <2>6. Follows'
    <3>1. Exempt("updater", "disable")
      BY DEF Exempt
    <3>2. QED
      BY <1>1, <1>2, <1>3, <1>4, <2>2, <2>3, <3>1, FollowsTurn
  <2>7. QED
    BY <2>4, <2>5, <2>6 DEF RegistrationInv
<1>6. CASE ~core.known
  <2>1. Turn("updater", Idle)
    BY <1>6, NoAuthFacts DEF LookUp, Turn
  <2>2. RegistrationTyped'
    BY <1>1, <1>2, <1>4, <2>1, TypedTurn
  <2>3. core.disabled /\ ~sched.in
    BY <1>1, <1>6 DEF Unborn
  <2>4. Unborn'
    <3>1. work'["updater"] = Idle /\ \A v \in Workers \ {"updater"} : work'[v] = work[v]
      BY <1>1, <1>2, <2>1, TurnFacts
    <3>2. QED
      BY <1>1, <1>2, <3>1, NoAuthFacts DEF Unborn, Workers
  <2>5. Sees'
    BY <1>1, <1>2, <2>1, <2>3, SeesTurn
  <2>6. Follows'
    <3>1. ~raced => registered' = Wanted
      BY <1>2, <1>3, <2>3 DEF Wanted
    <3>2. QED
      BY <1>1, <1>2, <1>4, <2>1, <3>1, NoAuthFacts, FollowsTurn
  <2>7. QED
    BY <2>2, <2>4, <2>5, <2>6 DEF RegistrationInv
<1>7. QED
  BY <1>5, <1>6

LEMMA UpdateInv ==
  ASSUME RegistrationInv, Update
  PROVE  RegistrationInv'
<1>1. RegistrationTyped /\ Unborn /\ Sees /\ Follows /\ core \in Auths
      /\ work["updater"].auth \in Auths /\ "updater" \in Workers
  BY DEF RegistrationInv, RegistrationTyped, Jobs, Workers
<1> DEFINE auth == work["updater"].auth
           l == IF work["updater"].at = "update" THEN "updated" ELSE "upsert"
<1>2. /\ work["updater"].at \in {"update", "disable"} /\ Watch
      /\ core' = Inheriting(auth, core) /\ GotoWith("updater", l, core')
      /\ UNCHANGED <<catalog, notified, queue, req, registered, sched>>
  BY DEF Update, Stable
<1>3. core' \in Auths /\ SameConfig(core', auth) /\ core'.known
  BY <1>1, <1>2, InheritingFacts DEF Unborn
<1>4. l \in {"updated", "upsert"} /\ l \in Steps /\ (work["updater"].at = "disable" => l = "upsert")
      /\ (work["updater"].at = "update" => l = "updated")
  BY DEF Steps
<1> HIDE DEF l
<1>5. PICK job \in Jobs : Turn("updater", job) /\ job.at = l /\ job.auth = core'
  BY <1>1, <1>2, <1>3, <1>4, GotoWithFacts
<1>6. work'["updater"] = job /\ \A v \in Workers \ {"updater"} : work'[v] = work[v]
  BY <1>1, <1>5, TurnFacts
<1>7. RegistrationTyped'
  BY <1>1, <1>2, <1>3, <1>5, TypedTurn DEF RegistrationTyped
<1>8. Unborn' /\ Sees'
  BY <1>1, <1>2, <1>3, <1>4, <1>5, BornTurn, SeesTurn
<1>9. Follows'
  <2> SUFFICES ASSUME ~raced' PROVE (Calm /\ Cleared /\ Right)'
    BY DEF Follows
  <2>1. ~raced /\ Calm /\ Cleared /\ Right /\ ~Overlapping(work')
    BY <1>1, <1>2, TurnFacts, <1>5 DEF Watch, Follows
  <2>2. work'["catalog"].at = "idle" /\ work'["token"].at = "idle"
    BY <1>2, <1>6, <2>1 DEF Calm, Workers
  <2>3. Calm'
    BY <1>4, <1>5, <1>6, <2>2 DEF Calm, SameConfig, Workers
  <2>4. Cleared'
    BY <1>4, <1>5, <1>6 DEF Cleared
  <2>5. Right'
    <3>1. CASE work["updater"].at = "update"
      BY <1>4, <1>5, <1>6, <3>1 DEF Right
    <3>2. CASE work["updater"].at = "disable"
      <4>1. core'.disabled /\ registered' = {}
        BY <1>2, <1>3, <2>1, <3>2 DEF Cleared, SameConfig
      <4>2. QED
        BY <4>1 DEF Right, Wanted
    <3>3. QED
      BY <1>2, <3>1, <3>2
  <2>6. QED
    BY <2>3, <2>4, <2>5
<1>10. QED
  BY <1>7, <1>8, <1>9 DEF RegistrationInv

LEMMA UpsertUpdatedInv ==
  ASSUME RegistrationInv, UpsertUpdated
  PROVE  RegistrationInv'
<1>1. RegistrationTyped /\ Unborn /\ Sees /\ Follows /\ "updater" \in Workers
  BY DEF RegistrationInv, Workers
<1>2. /\ work["updater"].at = "updated" /\ Watch /\ Goto("updater", "resolve")
      /\ UNCHANGED <<catalog, notified, queue, core, registered>>
  BY DEF UpsertUpdated, Stable
<1>3. core.known
  BY <1>1, <1>2, BusyFacts
<1>4. PICK job \in Jobs : Turn("updater", job) /\ job.at = "resolve"
                          /\ job.auth = work["updater"].auth
  <2>1. "resolve" \in Steps
    BY DEF Steps
  <2>2. QED
    BY <1>1, <1>2, <2>1, GotoFacts
<1>5. RegistrationTyped'
  BY <1>1, <1>2, <1>4, TypedTurn DEF RegistrationTyped
<1>6. Unborn' /\ Sees'
  BY <1>1, <1>2, <1>3, <1>4, BornTurn, SeesTurn
<1>7. Follows'
  <2>1. Exempt("updater", "resolve") /\ SameConfig(core', core)
    BY <1>2 DEF Exempt, SameConfig
  <2>2. ~raced => SameConfig(work["updater"].auth, core)
    BY <1>1, <1>2 DEF Follows, Calm
  <2>3. QED
    BY <1>1, <1>2, <1>3, <1>4, <2>1, <2>2, FollowsTurn
<1>8. QED
  BY <1>5, <1>6, <1>7 DEF RegistrationInv

(***************************************************************************)
(* The catalogue and its callback.                                         *)
(***************************************************************************)
LEMMA ChangeCatalogInv ==
  ASSUME RegistrationInv, ChangeCatalog
  PROVE  RegistrationInv'
<1>1. RegistrationTyped /\ Unborn /\ Sees /\ Follows
  BY DEF RegistrationInv
<1>2. /\ catalog < MaxCatalog /\ catalog' = catalog + 1
      /\ UNCHANGED <<core, registered, sched, notified, queue, work, req, raced>>
  BY DEF ChangeCatalog
<1>3. catalog' \in 0 .. MaxCatalog /\ notified' < catalog'
  BY <1>1, <1>2, RegistrationAssumption DEF RegistrationTyped
<1>4. RegistrationTyped'
  BY <1>1, <1>2, <1>3 DEF RegistrationTyped
<1>5. Unborn' /\ Sees'
  BY <1>1, <1>2 DEF Unborn, Sees, Upserting
<1>6. Follows'
  <2>1. notified' # catalog'
    BY <1>1, <1>2, <1>3 DEF RegistrationTyped
  <2>2. Current' => Current /\ Wanted' = Wanted
    BY <1>2, <2>1 DEF Current, Wanted
  <2>3. QED
    BY <1>1, <1>2, <2>2 DEF Follows, Calm, Cleared, Right
<1>7. QED
  BY <1>4, <1>5, <1>6 DEF RegistrationInv

LEMMA CallbackInv ==
  ASSUME RegistrationInv, Callback
  PROVE  RegistrationInv'
<1>1. RegistrationTyped /\ Unborn /\ Sees /\ Follows /\ "catalog" \in Workers /\ core \in Auths
  BY DEF RegistrationInv, RegistrationTyped, Workers
<1>2. /\ notified < catalog /\ work["catalog"].at = "idle" /\ notified' = catalog /\ Watch
      /\ UNCHANGED <<core, registered, sched, catalog, queue, req>>
  BY DEF Callback
<1>3. CASE core.known /\ ~core.disabled
  <2> DEFINE job == [at |-> "resolve", auth |-> core, models |-> {}, again |-> TRUE]
  <2>1. work' = [work EXCEPT !["catalog"] = job]
    BY <1>3 DEF Callback
  <2>2. job \in Jobs /\ job.at = "resolve" /\ job.auth = core
    BY <1>1 DEF Jobs, Steps
  <2> HIDE DEF job
  <2>3. Turn("catalog", job)
    BY <2>1, <2>2 DEF Turn
  <2>4. work'["catalog"] = job /\ \A v \in Workers \ {"catalog"} : work'[v] = work[v]
        /\ work' \in [Workers -> Jobs]
    BY <1>1, <2>3, TurnFacts
  <2>5. RegistrationTyped'
    BY <1>1, <1>2, <2>4 DEF RegistrationTyped, Workers
  <2>6. Unborn' /\ Sees'
    BY <1>1, <1>2, <1>3, <2>2, <2>3, BornTurn, SeesTurn
  <2>7. Follows'
    <3> SUFFICES ASSUME ~raced' PROVE (Calm /\ Cleared /\ Right)'
      BY DEF Follows
    <3>1. ~raced /\ Calm /\ ~Overlapping(work')
      BY <1>1, <1>2, <2>3, TurnFacts DEF Watch, Follows
    <3>2. work'["updater"].at = "idle" /\ work'["token"] = work["token"]
      BY <2>2, <2>4, <3>1 DEF Overlapping, Workers
    <3>3. work["token"].at # "register"
      BY <1>1 DEF RegistrationTyped
    <3>4. Calm'
      BY <1>2, <1>3, <2>2, <2>4, <3>1, <3>2, <3>3 DEF Calm, SameConfig, Workers
    <3>5. Cleared' /\ Right'
      BY <2>2, <2>4, <3>2 DEF Cleared, Right
    <3>6. QED
      BY <3>4, <3>5
  <2>8. QED
    BY <2>5, <2>6, <2>7 DEF RegistrationInv
<1>4. CASE ~(core.known /\ ~core.disabled)
  <2>1. work' = work /\ core.disabled
    BY <1>1, <1>4 DEF Callback, Unborn
  <2>2. RegistrationTyped'
    BY <1>1, <1>2, <2>1 DEF RegistrationTyped
  <2>3. Unborn' /\ Sees'
    BY <1>1, <1>2, <2>1 DEF Unborn, Sees, Upserting
  <2>4. Follows'
    <3>1. Current /\ Wanted' = Wanted /\ (raced => raced')
      BY <1>2, <2>1 DEF Current, Wanted, Watch
    <3>2. QED
      BY <1>1, <1>2, <2>1, <3>1 DEF Follows, Calm, Cleared, Right
  <2>5. QED
    BY <2>2, <2>3, <2>4 DEF RegistrationInv
<1>5. QED
  BY <1>3, <1>4

LEMMA LatestInv ==
  ASSUME RegistrationInv, Latest
  PROVE  RegistrationInv'
<1>1. RegistrationTyped /\ Unborn /\ Sees /\ Follows /\ "catalog" \in Workers /\ core \in Auths
  BY DEF RegistrationInv, RegistrationTyped, Workers
<1>2. /\ work["catalog"].at = "latest" /\ Watch
      /\ UNCHANGED <<catalog, notified, queue, core, registered, sched>>
  BY DEF Latest, Stable
<1>3. core.known /\ (~raced => ~core.disabled)
  BY <1>1, <1>2, BusyFacts
<1> DEFINE l == IF core.disabled THEN "drop" ELSE "resolve"
           job == [at |-> l, auth |-> core, models |-> {}, again |-> FALSE]
<1>4. work' = [work EXCEPT !["catalog"] = job]
  BY DEF Latest
<1>5. l \in {"drop", "resolve"} /\ l \in Steps /\ (~core.disabled => l = "resolve")
  BY DEF Steps
<1> HIDE DEF l
<1>6. job \in Jobs /\ job.at = l /\ job.auth = core
  BY <1>1, <1>5 DEF Jobs
<1> HIDE DEF job
<1>7. Turn("catalog", job)
  BY <1>4, <1>6 DEF Turn
<1>8. RegistrationTyped'
  BY <1>1, <1>2, <1>7, TypedTurn DEF RegistrationTyped
<1>9. Unborn' /\ Sees'
  BY <1>1, <1>2, <1>3, <1>5, <1>6, <1>7, BornTurn, SeesTurn
<1>10. Follows'
  <2>1. ~Exempt("catalog", "latest") /\ SameConfig(core', core) /\ SameConfig(core, core)
    BY <1>2 DEF Exempt, SameConfig
  <2>2. QED
    BY <1>1, <1>2, <1>3, <1>5, <1>6, <1>7, <2>1, FollowsTurn
<1>11. QED
  BY <1>8, <1>9, <1>10 DEF RegistrationInv

\* Only after a race the credential is disabled between the rounds of the callback.
LEMMA DropInv ==
  ASSUME RegistrationInv, Drop
  PROVE  RegistrationInv'
<1>1. RegistrationTyped /\ Unborn /\ Sees /\ Follows /\ "catalog" \in Workers
  BY DEF RegistrationInv, Workers
<1>2. /\ work["catalog"].at = "drop" /\ Watch /\ Goto("catalog", "entry") /\ registered' = {}
      /\ UNCHANGED <<catalog, notified, queue, core, sched>>
  BY DEF Drop, Stable
<1>3. core.known /\ raced
  BY <1>1, <1>2, BusyFacts DEF Follows, Calm
<1>4. PICK job \in Jobs : Turn("catalog", job) /\ job.at = "entry"
  <2>1. "entry" \in Steps
    BY DEF Steps
  <2>2. QED
    BY <1>1, <1>2, <2>1, GotoFacts
<1>5. RegistrationTyped'
  BY <1>1, <1>2, <1>4, TypedTurn DEF RegistrationTyped
<1>6. Unborn' /\ Sees'
  BY <1>1, <1>2, <1>3, <1>4, BornTurn, SeesTurn
<1>7. Follows'
  BY <1>1, <1>2, <1>3, <1>4, FollowsTurn
<1>8. QED
  BY <1>5, <1>6, <1>7 DEF RegistrationInv

(***************************************************************************)
(* The token refresh.                                                      *)
(***************************************************************************)
LEMMA MarkPendingInv ==
  ASSUME RegistrationInv, MarkPending
  PROVE  RegistrationInv'
<1>1. RegistrationTyped /\ Unborn /\ Sees /\ Follows /\ "token" \in Workers
  BY DEF RegistrationInv, Workers
<1>2. /\ work["token"].at = "idle" /\ Watch /\ Goto("token", "pending")
      /\ core.known /\ ~core.disabled
      /\ UNCHANGED <<catalog, notified, queue, core, registered, sched>>
  BY DEF MarkPending
<1>3. PICK job \in Jobs : Turn("token", job) /\ job.at = "pending"
  <2>1. "pending" \in Steps
    BY DEF Steps
  <2>2. QED
    BY <1>1, <1>2, <2>1, GotoFacts
<1>4. RegistrationTyped'
  BY <1>1, <1>2, <1>3, TypedTurn DEF RegistrationTyped
<1>5. Unborn' /\ Sees'
  BY <1>1, <1>2, <1>3, BornTurn, SeesTurn
<1>6. Follows'
  <2>1. ~Exempt("token", "idle") /\ SameConfig(core', core)
    BY <1>2 DEF Exempt, SameConfig
  <2>2. QED
    BY <1>1, <1>2, <1>3, <2>1, FollowsTurn
<1>7. QED
  BY <1>4, <1>5, <1>6 DEF RegistrationInv

LEMMA CloneForRefreshInv ==
  ASSUME RegistrationInv, CloneForRefresh
  PROVE  RegistrationInv'
<1>1. RegistrationTyped /\ Unborn /\ Sees /\ Follows /\ "token" \in Workers /\ core \in Auths
  BY DEF RegistrationInv, RegistrationTyped, Workers
<1>2. /\ work["token"].at = "pending" /\ Watch /\ GotoWith("token", "refreshing", core)
      /\ UNCHANGED <<catalog, notified, queue, core, registered, sched>>
  BY DEF CloneForRefresh, Stable
<1>3. core.known /\ (~raced => ~core.disabled)
  BY <1>1, <1>2, BusyFacts
<1>4. PICK job \in Jobs : Turn("token", job) /\ job.at = "refreshing" /\ job.auth = core
  <2>1. "refreshing" \in Steps
    BY DEF Steps
  <2>2. QED
    BY <1>1, <1>2, <2>1, GotoWithFacts
<1>5. RegistrationTyped'
  BY <1>1, <1>2, <1>4, TypedTurn DEF RegistrationTyped
<1>6. Unborn' /\ Sees'
  BY <1>1, <1>2, <1>3, <1>4, BornTurn, SeesTurn
<1>7. Follows'
  <2>1. ~Exempt("token", "pending") /\ SameConfig(core', core) /\ SameConfig(core, core)
    BY <1>2 DEF Exempt, SameConfig
  <2>2. QED
    BY <1>1, <1>2, <1>3, <1>4, <2>1, FollowsTurn
<1>8. QED
  BY <1>5, <1>6, <1>7 DEF RegistrationInv

\* What is written back is old only after a race.
LEMMA RefreshedInv ==
  ASSUME RegistrationInv, Refreshed
  PROVE  RegistrationInv'
<1>1. RegistrationTyped /\ Unborn /\ Sees /\ Follows /\ "token" \in Workers /\ core \in Auths
  BY DEF RegistrationInv, RegistrationTyped, Workers
<1>2. /\ work["token"].at = "refreshing" /\ Watch
      /\ core' = Inheriting(work["token"].auth, core) /\ GotoWith("token", "upsert", core')
      /\ UNCHANGED <<catalog, notified, queue, registered, sched>>
  BY DEF Refreshed, Stable
<1>3. core.known /\ (~raced => ~core.disabled) /\ work["token"].auth \in Auths
  BY <1>1, <1>2, BusyFacts
<1>4. core' \in Auths /\ core'.known /\ SameConfig(core', work["token"].auth)
  BY <1>1, <1>2, <1>3, InheritingFacts DEF Unborn
<1>5. ~raced => SameConfig(core', core)
  <2>1. ~raced => SameConfig(work["token"].auth, core)
    BY <1>1, <1>2 DEF Follows, Calm
  <2>2. QED
    BY <1>4, <2>1 DEF SameConfig
<1>6. PICK job \in Jobs : Turn("token", job) /\ job.at = "upsert"
  <2>1. "upsert" \in Steps
    BY DEF Steps
  <2>2. QED
    BY <1>1, <1>2, <1>4, <2>1, GotoWithFacts
<1>7. RegistrationTyped'
  BY <1>1, <1>2, <1>4, <1>6, TypedTurn DEF RegistrationTyped
<1>8. Unborn' /\ Sees'
  BY <1>1, <1>2, <1>4, <1>6, BornTurn, SeesTurn
<1>9. Follows'
  <2>1. ~Exempt("token", "refreshing")
    BY DEF Exempt
  <2>2. QED
    BY <1>1, <1>2, <1>3, <1>4, <1>5, <1>6, <2>1, FollowsTurn
<1>10. QED
  BY <1>7, <1>8, <1>9 DEF RegistrationInv

LEMMA RefreshFailedInv ==
  ASSUME RegistrationInv, RefreshFailed
  PROVE  RegistrationInv'
<1>1. RegistrationTyped /\ Unborn /\ Sees /\ Follows /\ "token" \in Workers /\ core \in Auths
  BY DEF RegistrationInv, RegistrationTyped, Workers
<1>2. /\ work["token"].at = "refreshing" /\ Watch /\ sched' = Upserted(core)
      /\ UNCHANGED <<catalog, notified, queue, core, registered>>
  BY DEF RefreshFailed, Stable
<1>3. core.known /\ (sched'.in => sched'.supported = registered')
  BY <1>1, <1>2, BusyFacts, UpsertedFacts DEF Auths
<1>4. Turn("token", Idle)
  BY NoAuthFacts DEF RefreshFailed, Turn
<1>5. RegistrationTyped'
  BY <1>1, <1>2, <1>4, TypedTurn DEF RegistrationTyped
<1>6. Unborn' /\ Sees'
  BY <1>1, <1>2, <1>3, <1>4, NoAuthFacts, BornTurn, SeesTurn
<1>7. Follows'
  <2>1. ~Exempt("token", "refreshing") /\ SameConfig(core', core)
    BY <1>2 DEF Exempt, SameConfig
  <2>2. QED
    BY <1>1, <1>2, <1>4, <2>1, NoAuthFacts, FollowsTurn
<1>8. QED
  BY <1>5, <1>6, <1>7 DEF RegistrationInv

(***************************************************************************)
(* What no worker does: requests touch the model states and the scheduler. *)
(***************************************************************************)
LEMMA OutsideInv ==
  ASSUME RegistrationInv, core' \in Auths, SameConfig(core', core), core'.known = core.known,
         UNCHANGED <<registered, catalog, notified, work, raced>>, queue' \in Seq(Updates),
         core.known \/ UNCHANGED <<sched, req>>,
         sched' = sched \/ (sched'.in => sched'.supported = registered')
  PROVE  RegistrationInv'
<1>1. RegistrationTyped /\ Unborn /\ Sees /\ Follows
  BY DEF RegistrationInv
<1>2. RegistrationTyped'
  BY <1>1 DEF RegistrationTyped
<1>3. Unborn'
  BY <1>1 DEF Unborn, SameConfig
<1>4. Sees'
  BY <1>1 DEF Sees, Upserting
<1>5. Follows'
  <2>1. Wanted' = Wanted /\ (Current' <=> Current) /\ core'.disabled = core.disabled
        /\ \A a : SameConfig(a, core) => SameConfig(a, core')
    BY DEF SameConfig, Wanted, Current
  <2>2. QED
    BY <1>1, <2>1 DEF Follows, Calm, Cleared, Right
<1>6. QED
  BY <1>2, <1>3, <1>4, <1>5 DEF RegistrationInv

LEMMA RequestInv ==
  ASSUME RegistrationInv, NEW r \in Requests,
         \/ \E m \in AuthModels, ok \in BOOLEAN : Record(r, m, ok)
         \/ Snapshot(r) \/ Push(r) \/ Mark(r)
  PROVE  RegistrationInv'
<1>1. RegistrationTyped /\ Unborn /\ core \in Auths /\ SameConfig(core, core)
      /\ queue \in Seq(Updates)
  BY DEF RegistrationInv, RegistrationTyped, SameConfig
<1>2. ASSUME NEW m \in AuthModels, NEW ok \in BOOLEAN, Record(r, m, ok) PROVE RegistrationInv'
  <2> DEFINE s == IF ok THEN "clean" ELSE "bad"
  <2>1. core.known /\ core' = [core EXCEPT !.states[m] = s]
        /\ UNCHANGED <<registered, sched, catalog, notified, queue, work, raced>>
    BY <1>2 DEF Record
  <2>2. s \in {"none", "clean", "bad"}
    OBVIOUS
  <2> HIDE DEF s
  <2>3. core' \in Auths /\ SameConfig(core', core) /\ core'.known = core.known
    BY <1>1, <2>1, <2>2 DEF Auths, SameConfig
  <2>4. QED
    BY <1>1, <2>1, <2>3, OutsideInv
<1>3. CASE Snapshot(r)
  BY <1>1, <1>3, OutsideInv DEF Snapshot
<1>4. CASE Push(r)
  <2>1. core.known
    BY <1>1, <1>4 DEF Push, Unborn
  <2>2. sched'.in => sched'.supported = registered'
    BY <1>4 DEF Push, Upserted
  <2>3. QED
    BY <1>1, <1>4, <2>1, <2>2, OutsideInv DEF Push
<1>5. CASE Mark(r)
  <2>1. core.known
    BY <1>1, <1>5 DEF Mark, Unborn
  <2>2. QED
    BY <1>1, <1>5, <2>1, OutsideInv DEF Mark
<1>6. QED
  BY <1>2, <1>3, <1>4, <1>5

LEMMA EmitInv ==
  ASSUME RegistrationInv, Emit
  PROVE  RegistrationInv'
<1>1. core \in Auths /\ SameConfig(core, core) /\ queue' \in Seq(Updates)
  BY DEF RegistrationInv, RegistrationTyped, SameConfig, Emit
<1>2. QED
  BY <1>1, OutsideInv DEF Emit

LEMMA RegistrationNextInv ==
  RegistrationInv /\ [RegistrationNext]_registrationVars => RegistrationInv'
<1> SUFFICES ASSUME RegistrationInv, [RegistrationNext]_registrationVars PROVE RegistrationInv'
  OBVIOUS
<1>1. CASE UNCHANGED registrationVars
  <2>1. core \in Auths /\ SameConfig(core, core) /\ queue \in Seq(Updates)
    BY DEF RegistrationInv, RegistrationTyped, SameConfig
  <2>2. QED
    BY <1>1, <2>1, OutsideInv DEF registrationVars
<1>2. CASE Emit \/ Take \/ LookUp \/ Update \/ UpsertUpdated
  BY <1>2, EmitInv, TakeInv, LookUpInv, UpdateInv, UpsertUpdatedInv
<1>3. CASE ChangeCatalog \/ Callback \/ Latest \/ Drop
  BY <1>3, ChangeCatalogInv, CallbackInv, LatestInv, DropInv
<1>4. CASE MarkPending \/ CloneForRefresh \/ Refreshed \/ RefreshFailed
  BY <1>4, MarkPendingInv, CloneForRefreshInv, RefreshedInv, RefreshFailedInv
<1>5. ASSUME NEW w \in Workers,
             \/ Resolve(w) \/ Register(w) \/ ReadSupported(w) \/ ReconcileStates(w)
             \/ UpsertReconciled(w) \/ ReadEntry(w) \/ UpsertEntry(w)
      PROVE  RegistrationInv'
  BY <1>5, ResolveInv, RegisterInv, ReadSupportedInv, ReconcileStatesInv, UpsertReconciledInv,
     ReadEntryInv, UpsertEntryInv
<1>6. ASSUME NEW r \in Requests,
             \/ \E m \in AuthModels, ok \in BOOLEAN : Record(r, m, ok)
             \/ Snapshot(r) \/ Push(r) \/ Mark(r)
      PROVE  RegistrationInv'
  BY <1>6, RequestInv
<1>7. QED
  BY <1>1, <1>2, <1>3, <1>4, <1>5, <1>6 DEF RegistrationNext

LEMMA RegistrationInvariant == RegistrationSpec => []RegistrationInv
BY RegistrationInitInv, RegistrationNextInv, PTL DEF RegistrationSpec

\* Conductor, registry and scheduler agree on a credential at rest, however the
\* updates, catalogues, token refreshes and requests interleaved, whatever
\* models there are and as long as the run may be: the scheduler always, the
\* registry if the last update ran alone.
THEOREM RegistrationsAgree == RegistrationSpec => []AllAgree
<1>1. RegistrationInv => AllAgree
  <2> SUFFICES ASSUME RegistrationInv, AtRest
               PROVE  /\ sched.in => sched.supported = registered
                      /\ ~raced => registered = Wanted
    BY DEF AllAgree, SchedulerSeesRegistry, RegistryFollowsCore, Wanted
  <2>1. sched.in => sched.supported = registered
    BY DEF RegistrationInv, Sees, Upserting, AtRest
  <2>2. ~raced => registered = Wanted
    BY DEF RegistrationInv, Follows, Right, Current, AtRest, Workers
  <2>3. QED
    BY <2>1, <2>2
<1>2. QED
  BY <1>1, RegistrationInvariant, PTL

\* A credential that was removed, or disabled, by an update that ran alone is
\* served for no model, whichever older snapshots requests still push.
THEOREM RemovedStaysOut == RegistrationSpec => []RemovedNotServed
<1>1. RegistrationInv => RemovedNotServed
  <2> SUFFICES ASSUME RegistrationInv, core.known, core.disabled,
                      work["updater"].at = "idle", ~raced, sched.in
               PROVE  sched.supported = {}
    BY DEF RemovedNotServed
  <2>1. \A w \in Workers : work[w].at = "idle"
    BY DEF RegistrationInv, Follows, Calm, Workers
  <2>2. sched.supported = registered
    BY <2>1 DEF RegistrationInv, Sees, Upserting
  <2>3. registered = Wanted
    BY <2>1 DEF RegistrationInv, Follows, Right, Current, Workers
  <2>4. QED
    BY <2>2, <2>3 DEF Wanted
<1>2. QED
  BY <1>1, RegistrationInvariant, PTL
=============================================================================
