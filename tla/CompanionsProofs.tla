---------------------------- MODULE CompanionsProofs ----------------------------
(***************************************************************************)
(* What the formatter runs, and on what, for every pair of config files,   *)
(* every spelling, directory tree and PATH, and any number of tool calls,  *)
(* touches and flushes.                                                    *)
(*                                                                         *)
(* A flush is followed group by group and step by step: Walk says where it *)
(* stands and what its log holds by then.  The rest says that the chains   *)
(* it walks are those of the files' own config, and that a file owed to    *)
(* the session is always one the next flush will take.                     *)
(***************************************************************************)
EXTENDS Companions, TLAPS, FiniteSetTheorems, SequenceTheorems, NaturalsInduction,
        WellFoundedInduction

File == {PathOf[s] : s \in DOMAIN PathOf}
Chains == {Chain(Loaded(l), key) : l \in Layers, key \in ChainKeys} \cup {<<>>}
Names == UNION {UNION {ToSet(chain[i].names) : i \in DOMAIN chain} : chain \in Chains}

Group == [wildcard : BOOLEAN, chain : Chains, files : SUBSET File]
Run == [wildcard : BOOLEAN, step : Nat, name : Names, files : SUBSET File,
        handled : SUBSET File]
Flushes == [by : {"turn", "agent", "shutdown"}, began : BOOLEAN, taken : Seq(File),
            groups : SUBSET Group, group : Group, at : Nat, inputs : SUBSET File,
            working : SUBSET File, claimed : SUBSET File, log : Seq(Run)]

-----------------------------------------------------------------------------
(* A flush on its way through its groups.                                     *)
KeyOf(file, wildcard) == IF wildcard THEN "*" ELSE ExtOf[file]
GroupsOf(f, cfg) == GroupFilesByChain(ToSet(f.taken), cfg)
Handled(f) == UNION {f.log[j].handled : j \in 1..Len(f.log)}

(* A run is of a formatter its files' chain names at that step, no two are of *)
(* the same step and file, and none touches what was claimed before.          *)
Logged(f, cfg) ==
  /\ \A j \in 1..Len(f.log) :
       LET e == f.log[j]
       IN  /\ e.files \subseteq ToSet(f.taken) /\ e.handled \subseteq e.files
           /\ Resolves(e.name, cfg)
           /\ \A file \in e.files :
                LET chain == Chain(cfg, KeyOf(file, e.wildcard))
                IN  e.step \in DOMAIN chain /\ e.name \in ToSet(chain[e.step].names)
           /\ ~e.wildcard => \A g \in f.groups : e.files \cap g.files = {}
  /\ \A j, k \in 1..Len(f.log) :
       /\ j < k => f.log[j].handled \cap f.log[k].files = {}
       /\ /\ f.log[j].wildcard = f.log[k].wildcard /\ f.log[j].step = f.log[k].step
          /\ f.log[j].files \cap f.log[k].files # {}
          => j = k

(* What was due at a step of a group, the files went through or were claimed. *)
Certain(step, cfg) ==
  /\ step.kind = "single"
  /\ step.names[1] \in DOMAIN cfg.formatters /\ ~cfg.formatters[step.names[1]].disabled
Went(f, file, wildcard, s) ==
  RunsOn(f, file, wildcard, s) # {} \/ ClaimedBefore(f, file, wildcard, s)
PastStep(f, g, s, cfg) ==
  Certain(g.chain[s], cfg) => \A file \in g.files : Went(f, file, g.wildcard, s)

\* Every group is ahead, is the one at hand, or is past.
Settled(f, group, cfg) ==
  /\ f.groups \subseteq GroupsOf(f, cfg)
  /\ Logged(f, cfg)
  /\ \A g \in GroupsOf(f, cfg) \ f.groups :
       g # group => \A s \in DOMAIN g.chain : PastStep(f, g, s, cfg)

WildClaims(f) ==
  {file \in File : \E j \in 1..Len(f.log) : f.log[j].wildcard /\ file \in f.log[j].handled}

(* In the group at hand: the steps before n are past, and rest is what no     *)
(* dispatcher has claimed.                                                    *)
Within(f, rest, n, cfg) ==
  /\ f.group \in GroupsOf(f, cfg) \ f.groups
  /\ \A g \in f.groups : ~g.wildcard
  /\ f.inputs = Inputs(f, f.group) /\ rest = f.inputs \ Handled(f)
  /\ IF f.group.wildcard
     THEN f.claimed = {} /\ \A j \in 1..Len(f.log) : f.log[j].wildcard
     ELSE f.claimed = WildClaims(f)
  /\ \A j \in 1..Len(f.log) :
       f.log[j].wildcard = f.group.wildcard /\ f.log[j].files \cap f.group.files # {}
       => f.log[j].step < n
  /\ \A s \in DOMAIN f.group.chain : s < n => PastStep(f, f.group, s, cfg)

Walk(f, cfg) ==
  /\ Settled(f, f.group, cfg)
  /\ IF f.group = NoGroup THEN f.groups = {} /\ f.working = {}
     ELSE /\ Within(f, f.working, f.at, cfg)
          /\ f.at \in ResolveChainSteps(f.group.chain, cfg)

(* Between two groups, the wildcard's not begun or over.                      *)
Between(f, cfg) ==
  /\ Settled(f, NoGroup, cfg)
  /\ f.claimed = WildClaims(f)
  /\ (\E g \in f.groups : g.wildcard) => f.log = <<>>

Types == flushes \in Seq(Flushes) /\ touched \in Seq(File)

(* Only the first flush has begun, the shutdown's is the last, and while one  *)
(* is there the config is that of the session's files.                        *)
QueueInv ==
  /\ Up => layers \in Layers /\ config = Loaded(layers)
  /\ flushes # <<>> => Up
  /\ \A i \in 1..Len(flushes) :
       /\ flushes[i].by = "shutdown" => i = Len(flushes) /\ phase = "closing"
       /\ ~flushes[i].began => flushes[i] = Queued(flushes[i].by)
       /\ flushes[i].began => i = 1

(* What is owed is in the queue, and what no flush will take came late.       *)
OwedInv ==
  /\ ToSet(touched) \subseteq written /\ (~Up => touched = <<>>)
  /\ owed \subseteq ToSet(touched)
  /\ Closing => owed \subseteq late

WalkInv ==
  \A i \in 1..Len(flushes) :
    ToSet(flushes[i].taken) \subseteq written /\ (flushes[i].began => Walk(flushes[i], config))

IInv == Types /\ QueueInv /\ OwedInv /\ WalkInv

-----------------------------------------------------------------------------
(* Least elements, and the queue of touched files.                            *)
LEMMA LeastNatural ==
  ASSUME NEW S \in SUBSET Nat, S # {}
  PROVE  \E n \in S : \A m \in S : n <= m
<1> DEFINE Below == {p \in Nat \X Nat : p[1] < p[2]}
<1>1. IsWellFoundedOn(Below, Nat)
  BY NatLessThanWellFounded, Zenon DEF OpToRel
<1>2. PICK n \in S : \A m \in S : <<m, n>> \notin Below
  <2> HIDE DEF Below
  <2>1. QED
    BY <1>1, WFMin
<1>3. ASSUME NEW m \in S PROVE n <= m
  <2>1. n \in Nat /\ m \in Nat /\ ~(m < n)
    BY <1>2
  <2>2. QED
    BY <2>1
<1>4. QED
  BY <1>3

LEMMA EarliestPlace ==
  ASSUME NEW places \in SUBSET (Nat \ {0})
  PROVE  /\ Earliest(places) = 0 <=> places = {}
         /\ places # {} =>
              Earliest(places) \in places /\ \A p \in places : Earliest(places) <= p
<1>1. CASE places = {}
  BY <1>1 DEF Earliest
<1>2. CASE places # {}
  <2>1. \E n \in places : \A m \in places : n <= m
    BY <1>2, LeastNatural
  <2>2. Earliest(places) \in places /\ \A p \in places : Earliest(places) <= p
    BY <1>2, <2>1 DEF Earliest
  <2>3. QED
    BY <2>2, <1>2
<1>3. QED
  BY <1>1, <1>2

LEMMA AppendedToSet ==
  ASSUME NEW S, NEW s \in Seq(S), NEW e \in S
  PROVE  Append(s, e) \in Seq(S) /\ ToSet(Append(s, e)) = ToSet(s) \cup {e}
<1>1. /\ Append(s, e) \in Seq(S) /\ Len(Append(s, e)) = Len(s) + 1
      /\ \A i \in 1..Len(s) : Append(s, e)[i] = s[i]
      /\ Append(s, e)[Len(s) + 1] = e
  BY AppendProperties
<1>2. DOMAIN Append(s, e) = 1..Len(s) \cup {Len(s) + 1} /\ DOMAIN s = 1..Len(s)
  BY <1>1
<1>3. QED
  BY <1>1, <1>2 DEF ToSet

(* The queue after the first n spellings.                                     *)
EnqueuesFirst(f, queue, spellings, cfg, n) ==
  f = [i \in 0..n |->
         IF i = 0 THEN queue
         ELSE LET file == PathOf[spellings[i]]
              IN  IF \/ spellings[i] = Blank \/ ~InScope(file, cfg)
                     \/ file \in ToSet(f[i - 1])
                  THEN f[i - 1] ELSE Append(f[i - 1], file)]

LEMMA EnqueueDefined ==
  ASSUME NEW queue, NEW spellings, NEW cfg, Len(spellings) \in Nat
  PROVE  \E f : EnqueuesFirst(f, queue, spellings, cfg, Len(spellings))
<1> DEFINE Goes(last, i) ==
             LET file == PathOf[spellings[i]]
             IN  IF \/ spellings[i] = Blank \/ ~InScope(file, cfg) \/ file \in ToSet(last)
                 THEN last ELSE Append(last, file)
           First(f, n) == f = [i \in 0..n |-> IF i = 0 THEN queue ELSE Goes(f[i - 1], i)]
           Without == {n \in 0..Len(spellings) : ~\E f : First(f, n)}
<1>1. \A f, n : EnqueuesFirst(f, queue, spellings, cfg, n) <=> First(f, n)
  BY DEF EnqueuesFirst
<1> HIDE DEF Goes
<1>2. ASSUME Without # {} PROVE FALSE
  <2>1. PICK n \in Without : \A k \in Without : n <= k
    <3>1. Without \in SUBSET Nat
      OBVIOUS
    <3> HIDE DEF Without
    <3>2. QED
      BY <1>2, <3>1, LeastNatural
  <2>2. CASE n = 0
    <3>1. First([i \in 0..0 |-> queue], 0)
      OBVIOUS
    <3>2. QED
      BY <3>1, <2>2
  <2>3. CASE n # 0
    <3>1. n \in Nat /\ n - 1 \in 0..Len(spellings) /\ ~(n <= n - 1)
      BY <2>3
    <3>2. n - 1 \notin Without
      <4> HIDE DEF Without
      <4>1. QED
        BY <2>1, <3>1
    <3>3. PICK f : First(f, n - 1)
      BY <3>1, <3>2
    <3> DEFINE last == Goes(f[n - 1], n)
               g == [i \in 0..n |-> IF i = n THEN last ELSE f[i]]
    <3>4. \A i \in 0..(n - 1) : f[i] = IF i = 0 THEN queue ELSE Goes(f[i - 1], i)
      BY <3>3
    <3>5. ASSUME NEW i \in 0..n PROVE g[i] = IF i = 0 THEN queue ELSE Goes(g[i - 1], i)
      <4>1. CASE i = n
        BY <4>1, <2>3, <3>1
      <4>2. CASE i # n
        <5>1. i \in 0..(n - 1) /\ (i # 0 => i - 1 \in 0..n /\ i - 1 # n)
          BY <4>2, <3>1
        <5>2. g[i] = f[i] /\ (i # 0 => g[i - 1] = f[i - 1])
          BY <5>1, <4>2
        <5>3. QED
          BY <5>1, <5>2, <3>4
      <4>3. QED
        BY <4>1, <4>2
    <3>6. First(g, n)
      BY <3>5
    <3>7. QED
      BY <3>6
  <2>4. QED
    BY <2>2, <2>3
<1>3. Len(spellings) \notin Without
  <2> HIDE DEF Without
  <2>1. QED
    BY <1>2
<1>4. \E f : First(f, Len(spellings))
  BY <1>3
<1>5. QED
  BY <1>1, <1>4

(* Files named go to the queue, those in scope and no others.                 *)
LEMMA Enqueued ==
  ASSUME NEW queue \in Seq(File), NEW cfg, NEW spellings \in Seq(DOMAIN PathOf \cup {Blank})
  PROVE  /\ Enqueue(queue, spellings, cfg) \in Seq(File)
         /\ ToSet(Enqueue(queue, spellings, cfg)) =
              ToSet(queue) \cup {x \in {PathOf[s] : s \in ToSet(spellings) \ {Blank}} : InScope(x, cfg)}
<1> DEFINE f == CHOOSE f : EnqueuesFirst(f, queue, spellings, cfg, Len(spellings))
           Named(i) == {x \in {PathOf[spellings[j]] : j \in {j \in 1..i : spellings[j] # Blank}} :
                          InScope(x, cfg)}
           Right(i) == f[i] \in Seq(File) /\ ToSet(f[i]) = ToSet(queue) \cup Named(i)
           Wrong == {i \in 0..Len(spellings) : ~Right(i)}
<1>0. Len(spellings) \in Nat
  OBVIOUS
<1>1. EnqueuesFirst(f, queue, spellings, cfg, Len(spellings))
  BY <1>0, EnqueueDefined
<1>2. Enqueue(queue, spellings, cfg) = f[Len(spellings)]
  BY Zenon DEF Enqueue, EnqueuesFirst
<1> HIDE DEF f
<1>3. /\ f[0] = queue
      /\ \A i \in 1..Len(spellings) :
           f[i] = IF \/ spellings[i] = Blank \/ ~InScope(PathOf[spellings[i]], cfg)
                     \/ PathOf[spellings[i]] \in ToSet(f[i - 1])
                  THEN f[i - 1] ELSE Append(f[i - 1], PathOf[spellings[i]])
  <2>1. \A i \in 0..Len(spellings) :
          f[i] = IF i = 0 THEN queue
                 ELSE IF \/ spellings[i] = Blank \/ ~InScope(PathOf[spellings[i]], cfg)
                         \/ PathOf[spellings[i]] \in ToSet(f[i - 1])
                      THEN f[i - 1] ELSE Append(f[i - 1], PathOf[spellings[i]])
    BY <1>1, Zenon DEF EnqueuesFirst
  <2>2. QED
    BY <2>1, <1>0
<1>4. ASSUME Wrong # {} PROVE FALSE
  <2>1. PICK i \in Wrong : \A k \in Wrong : i <= k
    <3>1. Wrong \in SUBSET Nat
      BY <1>0
    <3> HIDE DEF Wrong
    <3>2. QED
      BY <1>4, <3>1, LeastNatural
  <2>2. CASE i = 0
    <3>1. Named(0) = {}
      OBVIOUS
    <3>2. Right(0)
      BY <3>1, <1>3
    <3>3. QED
      BY <3>2, <2>2
  <2>3. CASE i # 0
    <3>1. i - 1 \in 0..Len(spellings) /\ i \in 1..Len(spellings)
      BY <2>3, <1>0
    <3>2. Right(i - 1)
      <4>1. i - 1 \notin Wrong
        <5> HIDE DEF Wrong
        <5>1. QED
          BY <2>1, <3>1
      <4>2. QED
        BY <4>1, <3>1
    <3>3. spellings[i] # Blank => PathOf[spellings[i]] \in File
      BY <3>1, ElementOfSeq DEF File
    <3>4. Named(i) = Named(i - 1) \cup
            IF spellings[i] # Blank /\ InScope(PathOf[spellings[i]], cfg)
            THEN {PathOf[spellings[i]]} ELSE {}
      <4>1. 1..i = 1..(i - 1) \cup {i}
        BY <3>1
      <4>2. QED
        BY <4>1
    <3> HIDE DEF Named
    <3>5. CASE \/ spellings[i] = Blank \/ ~InScope(PathOf[spellings[i]], cfg)
               \/ PathOf[spellings[i]] \in ToSet(f[i - 1])
      <4>1. f[i] = f[i - 1]
        BY <1>3, <3>1, <3>5
      <4>2. QED
        BY <4>1, <3>2, <3>4, <3>5
    <3>6. CASE /\ spellings[i] # Blank /\ InScope(PathOf[spellings[i]], cfg)
               /\ PathOf[spellings[i]] \notin ToSet(f[i - 1])
      <4>1. f[i] = Append(f[i - 1], PathOf[spellings[i]])
        BY <1>3, <3>1, <3>6
      <4>2. f[i - 1] \in Seq(File) /\ PathOf[spellings[i]] \in File
        BY <3>2, <3>3, <3>6
      <4>3. ToSet(f[i]) = ToSet(f[i - 1]) \cup {PathOf[spellings[i]]} /\ f[i] \in Seq(File)
        BY <4>1, <4>2, AppendedToSet
      <4>4. QED
        BY <4>3, <3>2, <3>4, <3>6
    <3>7. QED
      BY <3>5, <3>6
  <2>4. QED
    BY <2>2, <2>3
<1>5. Right(Len(spellings))
  <2>1. Len(spellings) \notin Wrong
    <3> HIDE DEF Wrong
    <3>1. QED
      BY <1>4
  <2>2. QED
    BY <2>1, <1>0
<1>6. {PathOf[spellings[j]] : j \in {j \in 1..Len(spellings) : spellings[j] # Blank}}
        = {PathOf[s] : s \in ToSet(spellings) \ {Blank}}
  BY DEF ToSet
<1>7. QED
  BY <1>2, <1>5, <1>6

(* The first flush leaves; the others move up.                                *)
LEMMA FirstRemoved ==
  ASSUME NEW S, NEW s \in Seq(S), s # <<>>
  PROVE  /\ RemoveAt(s, 1) \in Seq(S) /\ Len(RemoveAt(s, 1)) = Len(s) - 1
         /\ \A i \in 1..(Len(s) - 1) : RemoveAt(s, 1)[i] = s[i + 1]
<1>1. SubSeq(s, 1, 0) = <<>> /\ SubSeq(s, 2, Len(s)) = Tail(s)
  BY SubSeqEmpty, TailIsSubSeq
<1>2. RemoveAt(s, 1) = Tail(s)
  <2>1. Tail(s) \in Seq(S)
    BY HeadTailProperties
  <2>2. RemoveAt(s, 1) = <<>> \o Tail(s)
    BY <1>1 DEF RemoveAt
  <2>3. QED
    BY <2>1, <2>2, ConcatEmptySeq
<1>3. QED
  BY <1>2, HeadTailProperties

-----------------------------------------------------------------------------
(* What a step chooses.                                                       *)
LEMMA ChosenAlternative ==
  ASSUME NEW step, DOMAIN step.names \subseteq Nat \ {0},
         NEW working, NEW known, NEW cfg
  PROVE  LET at == Choice(step, working, known, cfg).at
         IN  /\ at = 0 \/ at \in Alternatives(step, cfg)
             /\ step.kind = "single" /\ Alternatives(step, cfg) # {} => at # 0
<1>1. Alternatives(step, cfg) \in SUBSET (Nat \ {0})
  BY DEF Alternatives
<1>2. CASE step.kind = "single"
  <2>1. Choice(step, working, known, cfg).at = Earliest(Alternatives(step, cfg))
    BY <1>2 DEF Choice
  <2>2. QED
    BY <2>1, <1>1, EarliestPlace
<1>3. CASE step.kind # "single"
  <2>1. \A P \in SUBSET Probed(step, cfg) : Earliest(P) = 0 \/ Earliest(P) \in P
    BY <1>1, EarliestPlace DEF Probed
  <2>2. Choice(step, working, known, cfg).at = 0
          \/ Choice(step, working, known, cfg).at \in Probed(step, cfg)
    <3> DEFINE BuiltIn(i, name) == step.names[i] = name /\ name \notin DOMAIN cfg.formatters
               nix == {i \in Probed(step, cfg) : BuiltIn(i, "treefmt-nix")}
               at == PreferNix(step, working, known, cfg).at
    <3>1. at = Earliest(nix) \/ at = Earliest(Probed(step, cfg))
      BY DEF PreferNix
    <3>2. nix \in SUBSET Probed(step, cfg)
      OBVIOUS
    <3>3. at = 0 \/ at \in Probed(step, cfg)
      <4> HIDE DEF nix, at
      <4>1. Probed(step, cfg) \in SUBSET Probed(step, cfg)
        OBVIOUS
      <4>2. (Earliest(nix) = 0 \/ Earliest(nix) \in nix)
            /\ (Earliest(Probed(step, cfg)) = 0
                \/ Earliest(Probed(step, cfg)) \in Probed(step, cfg))
        BY <2>1, <3>2, <4>1
      <4>3. QED
        BY <3>1, <3>2, <4>2
    <3>4. QED
      BY <3>3, <1>3 DEF Choice
  <2>3. QED
    BY <2>2, <1>3 DEF Probed
<1>4. QED
  BY <1>2, <1>3

(* A built-in's report claims files of the batch, and a skip claims none.     *)
LEMMA BuiltinReports ==
  ASSUME NEW name, NEW files, NEW r \in Reports(name, files)
  PROVE  r.handled \in SUBSET files /\ (r.skip => r.handled = {})
BY DEF Reports, TreefmtReports, NixReports

-----------------------------------------------------------------------------
(* The groups of a flush.                                                     *)
LEMMA GroupParts ==
  ASSUME NEW files, NEW cfg, NEW g \in GroupFilesByChain(files, cfg)
  PROVE  /\ g = [wildcard |-> g.wildcard, chain |-> g.chain, files |-> g.files]
         /\ g.wildcard \in BOOLEAN /\ g.files \subseteq files /\ g.files # {} /\ g.chain # <<>>
         /\ g # NoGroup
         /\ g.wildcard => g.files = files
         /\ \A file \in g.files : g.chain = Chain(cfg, KeyOf(file, g.wildcard))
         /\ ~g.wildcard => g.files = {file \in files : Chain(cfg, ExtOf[file]) = g.chain}
<1>1. CASE g = [wildcard |-> TRUE, chain |-> Chain(cfg, "*"), files |-> files]
           /\ Chain(cfg, "*") # <<>> /\ files # {}
  BY <1>1 DEF KeyOf, NoGroup
<1>2. CASE \E x \in files :
             /\ Chain(cfg, ExtOf[x]) # <<>>
             /\ g = [wildcard |-> FALSE, chain |-> Chain(cfg, ExtOf[x]),
                     files |-> {y \in files : Chain(cfg, ExtOf[y]) = Chain(cfg, ExtOf[x])}]
  BY <1>2 DEF KeyOf, NoGroup
<1>3. QED
  BY <1>1, <1>2 DEF GroupFilesByChain

(* Two groups of one pass that share a file are one group.                    *)
LEMMA GroupsApart ==
  ASSUME NEW files, NEW cfg, NEW g \in GroupFilesByChain(files, cfg),
         NEW h \in GroupFilesByChain(files, cfg), g.wildcard = h.wildcard,
         g.wildcard \/ g.files \cap h.files # {}
  PROVE  g = h
<1>1. g.chain = h.chain /\ g.files = h.files
  <2>1. CASE g.wildcard
    <3>1. g.files = files /\ h.files = files /\ files # {}
      BY <2>1, GroupParts
    <3>2. PICK x \in files : x \in g.files /\ x \in h.files
      BY <3>1
    <3>3. g.chain = Chain(cfg, KeyOf(x, g.wildcard))
      BY <3>2, GroupParts
    <3>4. h.chain = Chain(cfg, KeyOf(x, h.wildcard))
      BY <3>2, GroupParts
    <3>5. QED
      BY <3>1, <3>3, <3>4
  <2>2. CASE ~g.wildcard
    <3>1. g.chain = h.chain
      BY <2>2, GroupParts
    <3>2. QED
      BY <3>1, <2>2, GroupParts
  <2>3. QED
    BY <2>1, <2>2
<1>2. g = [wildcard |-> g.wildcard, chain |-> g.chain, files |-> g.files]
  BY GroupParts
<1>3. h = [wildcard |-> h.wildcard, chain |-> h.chain, files |-> h.files]
  BY GroupParts
<1>4. QED
  BY <1>1, <1>2, <1>3

LEMMA GroupOf ==
  ASSUME NEW files, NEW cfg, NEW file \in files, NEW wildcard \in BOOLEAN,
         Chain(cfg, KeyOf(file, wildcard)) # <<>>
  PROVE  \E g \in GroupFilesByChain(files, cfg) :
           /\ g.wildcard = wildcard /\ file \in g.files
           /\ g.chain = Chain(cfg, KeyOf(file, wildcard))
<1>1. CASE wildcard
  <2>1. [wildcard |-> TRUE, chain |-> Chain(cfg, "*"), files |-> files]
          \in GroupFilesByChain(files, cfg)
    BY <1>1 DEF GroupFilesByChain, KeyOf
  <2>2. QED
    BY <2>1, <1>1 DEF KeyOf
<1>2. CASE ~wildcard
  <2>1. [wildcard |-> FALSE, chain |-> Chain(cfg, ExtOf[file]),
         files |-> {y \in files : Chain(cfg, ExtOf[y]) = Chain(cfg, ExtOf[file])}]
          \in GroupFilesByChain(files, cfg)
    BY <1>2 DEF GroupFilesByChain, KeyOf
  <2>2. QED
    BY <2>1, <1>2 DEF KeyOf
<1>3. QED
  BY <1>1, <1>2

(* The group a flush goes to next is one that is due, the wildcard's first.   *)
LEMMA NextGroupDue ==
  ASSUME NEW f, f.taken \in Seq(File), Due(f) # {},
         \A g \in Due(f) : g.wildcard \in BOOLEAN,
         \A g, h \in Due(f) : g.wildcard /\ h.wildcard => g = h
  PROVE  /\ NextGroup(f) \in Due(f)
         /\ \A h \in Due(f) : h.wildcard => NextGroup(f) = h
<1>1. \A g : Touched(f, g) \in Nat
  <2>1. ASSUME NEW g PROVE Touched(f, g) \in Nat
    <3> DEFINE P == {i \in DOMAIN f.taken : f.taken[i] \in g.files}
    <3>1. P \in SUBSET (Nat \ {0})
      OBVIOUS
    <3>2. Earliest(P) \in Nat
      <4> HIDE DEF P
      <4>1. CASE P = {}
        BY <4>1 DEF Earliest
      <4>2. CASE P # {}
        BY <3>1, <4>2, EarliestPlace
      <4>3. QED
        BY <4>1, <4>2
    <3>3. QED
      BY <3>2 DEF Touched
  <2>2. QED
    BY <2>1
<1> DEFINE First(g) == \A h \in Due(f) :
             g.wildcard \/ (~h.wildcard /\ Touched(f, g) <= Touched(f, h))
<1>2. \E g \in Due(f) : First(g)
  <2>1. CASE \E g \in Due(f) : g.wildcard
    BY <2>1
  <2>2. CASE \A g \in Due(f) : ~g.wildcard
    <3> DEFINE T == {Touched(f, g) : g \in Due(f)}
    <3>1. T \in SUBSET Nat /\ T # {}
      BY <1>1
    <3>2. PICK n \in T : \A m \in T : n <= m
      <4> HIDE DEF T
      <4>1. QED
        BY <3>1, LeastNatural
    <3>3. PICK g \in Due(f) : n = Touched(f, g)
      OBVIOUS
    <3>4. \A h \in Due(f) : Touched(f, g) <= Touched(f, h)
      BY <3>2, <3>3
    <3>5. QED
      BY <3>4, <2>2
  <2>3. QED
    BY <2>1, <2>2
<1>3. NextGroup(f) \in Due(f) /\ First(NextGroup(f))
  BY <1>2 DEF NextGroup
<1>4. QED
  BY <1>3

-----------------------------------------------------------------------------
(* What the loader makes of the files.                                        *)
Merges(merged, base, overrides) ==
  /\ DOMAIN merged = DOMAIN base \cup DOMAIN overrides
  /\ \A k \in DOMAIN merged :
       merged[k] = IF k \in DOMAIN overrides THEN overrides[k] ELSE base[k]

LEMMA MergedObject ==
  ASSUME NEW base, NEW overrides, NEW key \in Objects
  PROVE  Merges(Entry(MergeUserConfigs(base, overrides), key), Entry(base, key),
                Entry(overrides, key))
<1> DEFINE merged == MergeUserConfigs(base, overrides)
<1>1. CASE key \in DOMAIN base \cup DOMAIN overrides
  <2>1. Entry(merged, key) = Spread(Entry(base, key), Entry(overrides, key))
    BY <1>1 DEF MergeUserConfigs, Entry
  <2>2. QED
    BY <2>1 DEF Spread, Merges
<1>2. CASE key \notin DOMAIN base \cup DOMAIN overrides
  <2>1. /\ Entry(merged, key) = None /\ Entry(base, key) = None
        /\ Entry(overrides, key) = None /\ DOMAIN None = {}
    BY <1>2 DEF MergeUserConfigs, Entry, None
  <2>2. QED
    BY <2>1 DEF Merges
<1>3. QED
  BY <1>1, <1>2

LEMMA LoadedObject ==
  ASSUME NEW l, NEW key \in Objects
  PROVE  LET object == Loaded(l)[key]
             global == Entry(Layer(l[1]), key)
             project == Entry(Layer(l[2]), key)
         IN  /\ DOMAIN object = DOMAIN DefaultConfig[key] \cup DOMAIN global \cup DOMAIN project
             /\ \A k \in DOMAIN object :
                  object[k] = IF k \in DOMAIN project THEN project[k]
                              ELSE IF k \in DOMAIN global THEN global[k]
                              ELSE DefaultConfig[key][k]
<1> DEFINE user == MergeUserConfigs(Layer(l[1]), Layer(l[2]))
<1>1. Loaded(l) = MergeUserConfigs(DefaultConfig, user)
  BY DEF Loaded, LoadAutoformatConfig, CreateFormatterConfig
<1>2. key \in DOMAIN DefaultConfig
  BY DEF DefaultConfig, Objects
<1>3. Entry(DefaultConfig, key) = DefaultConfig[key] /\ Entry(Loaded(l), key) = Loaded(l)[key]
  BY <1>1, <1>2 DEF Entry, MergeUserConfigs
<1>4. Merges(Entry(user, key), Entry(Layer(l[1]), key), Entry(Layer(l[2]), key))
  BY MergedObject
<1> HIDE DEF user
<1>5. Merges(Entry(Loaded(l), key), Entry(DefaultConfig, key), Entry(user, key))
  BY <1>1, MergedObject
<1>6. QED
  BY <1>3, <1>4, <1>5 DEF Merges

(* A file gives the formatters it declares and the chains it has right.       *)
LEMMA LayerFormatters ==
  ASSUME NEW file
  PROVE  LET object == Entry(Layer(file), "formatters")
         IN  /\ \A name : name \in DOMAIN object <=> Declares(file, name)
             /\ \A name \in DOMAIN object : object[name].disabled <=> Disables(file, name)
<1> DEFINE object == Object(file, "formatters")
<1>1. CASE /\ file # Unreadable /\ "formatters" \in DOMAIN file /\ file["formatters"] # Bad
  <2>1. object = file["formatters"]
    BY <1>1 DEF Object
  <2>2. Entry(Layer(file), "formatters") = ValidateFormatters(object)
    BY <1>1, <2>1 DEF Entry, Layer, ValidateConfig, ReadKey, ValidFor, Objects
  <2>3. \A name : name \in DOMAIN ValidateFormatters(object) <=> Declares(file, name)
    BY <2>1, Zenon DEF ValidateFormatters, Kept, ValidFormatter, ValidCommand, Declares
  <2>4. \A name \in DOMAIN ValidateFormatters(object) :
          ValidateFormatters(object)[name].disabled <=>
            ("disabled" \in DOMAIN object[name] /\ object[name].disabled = TRUE)
    BY DEF ValidateFormatters, Kept, Formatter
  <2>5. \A name : Disables(file, name) <=>
          Declares(file, name) /\ "disabled" \in DOMAIN object[name] /\ object[name].disabled = TRUE
    BY <2>1 DEF Disables
  <2>6. QED
    BY <2>2, <2>3, <2>4, <2>5
<1>2. CASE ~(/\ file # Unreadable /\ "formatters" \in DOMAIN file /\ file["formatters"] # Bad)
  <2>1. object = None /\ DOMAIN None = {}
    BY <1>2 DEF Object, None
  <2>2. Entry(Layer(file), "formatters") = None
    BY <1>2 DEF Entry, Layer, ValidateConfig, ValidFor, Objects, None
  <2>3. \A name : ~Declares(file, name)
    BY <2>1 DEF Declares
  <2>4. QED
    BY <2>1, <2>2, <2>3
<1>3. QED
  BY <1>1, <1>2

LEMMA KnownNames ==
  ASSUME NEW file, file # Unreadable, NEW name
  PROVE  name \in Known(file) <=> Knows(file, name)
<1>1. DOMAIN DefaultFormatters = {"prettier", "markdownlint-cli2"}
  BY DEF DefaultFormatters
<1>2. CASE "formatters" \in DOMAIN file /\ file["formatters"] # Bad
  <2>1. Entry(Layer(file), "formatters") = ValidateFormatters(file["formatters"])
    BY <1>2 DEF Entry, Layer, ValidateConfig, ReadKey, ValidFor, Objects
  <2>2. QED
    BY <1>1, <1>2, <2>1, LayerFormatters DEF Known, Knows
<1>3. CASE ~("formatters" \in DOMAIN file /\ file["formatters"] # Bad)
  <2>1. ~Declares(file, name)
    BY <1>3 DEF Declares, Object, None
  <2>2. QED
    BY <1>1, <1>3, <2>1 DEF Known, Knows
<1>4. QED
  BY <1>2, <1>3

LEMMA LayerChains ==
  ASSUME NEW file
  PROVE  LET object == Entry(Layer(file), "chains")
         IN  /\ \A key : key \in DOMAIN object <=> SoundChain(file, key)
             /\ \A key \in DOMAIN object : object[key] = ReadChain(key, file.chains[key])
<1> DEFINE object == Object(file, "chains")
<1>1. CASE /\ file # Unreadable /\ "chains" \in DOMAIN file /\ file["chains"] # Bad
  <2>1. object = file["chains"]
    BY <1>1 DEF Object
  <2>2. Entry(Layer(file), "chains") = ValidateChains(object, Known(file))
    BY <1>1, <2>1 DEF Entry, Layer, ValidateConfig, ReadKey, ValidFor, Objects
  <2>3. \A step : ValidStep(step, Known(file)) <=> SoundStep(file, step)
    <3>1. \A names : (\A n \in ToSet(names) : Knows(file, n)) <=> ToSet(names) \subseteq Known(file)
      BY <1>1, KnownNames
    <3>2. QED
      BY <3>1 DEF ValidStep, ValidFallback, SoundStep
  <2>4. \A key \in DOMAIN object :
          ValidChain(key, object[key], Known(file)) <=> SoundChain(file, key)
    BY <2>3 DEF ValidChain, SoundChain
  <2>5. /\ DOMAIN ValidateChains(object, Known(file)) =
             {k \in DOMAIN object : ValidChain(k, object[k], Known(file))}
        /\ \A k \in DOMAIN ValidateChains(object, Known(file)) :
             ValidateChains(object, Known(file))[k] = ReadChain(k, object[k])
    BY DEF ValidateChains, Kept
  <2>6. \A key : SoundChain(file, key) => key \in DOMAIN object
    BY DEF SoundChain
  <2>7. QED
    BY <2>1, <2>2, <2>4, <2>5, <2>6
<1>2. CASE ~(/\ file # Unreadable /\ "chains" \in DOMAIN file /\ file["chains"] # Bad)
  <2>1. object = None /\ DOMAIN None = {}
    BY <1>2 DEF Object, None
  <2>2. Entry(Layer(file), "chains") = None
    BY <1>2 DEF Entry, Layer, ValidateConfig, ValidFor, Objects, None
  <2>3. \A key : ~SoundChain(file, key)
    BY <2>1 DEF SoundChain
  <2>4. QED
    BY <2>1, <2>2, <2>3
<1>3. QED
  BY <1>1, <1>2

(* The chains of the config are the ones due, and a formatter is disabled in  *)
(* it if the files disable it.                                                *)
LEMMA LoadedFormatters ==
  ASSUME NEW l, NEW name
  PROVE  /\ name \in DOMAIN Loaded(l).formatters <=>
              \/ name \in {"prettier", "markdownlint-cli2"}
              \/ Declares(l[1], name) \/ Declares(l[2], name)
         /\ name \in DOMAIN Loaded(l).formatters =>
              (Loaded(l).formatters[name].disabled <=> Disabled(name, l))
<1> DEFINE global == Entry(Layer(l[1]), "formatters")
           project == Entry(Layer(l[2]), "formatters")
           object == Loaded(l).formatters
<1>1. "formatters" \in Objects
  BY DEF Objects
<1>2. DefaultConfig["formatters"] = DefaultFormatters
  BY DEF DefaultConfig
<1>3. /\ DOMAIN DefaultFormatters = {"prettier", "markdownlint-cli2"}
      /\ \A n \in DOMAIN DefaultFormatters : ~DefaultFormatters[n].disabled
  BY DEF DefaultFormatters
<1>4. /\ DOMAIN object = DOMAIN DefaultFormatters \cup DOMAIN global \cup DOMAIN project
      /\ \A k \in DOMAIN object :
           object[k] = IF k \in DOMAIN project THEN project[k]
                       ELSE IF k \in DOMAIN global THEN global[k] ELSE DefaultFormatters[k]
  BY <1>1, <1>2, LoadedObject
<1>5. /\ name \in DOMAIN global <=> Declares(l[1], name)
      /\ name \in DOMAIN global => (global[name].disabled <=> Disables(l[1], name))
  BY LayerFormatters
<1>6. /\ name \in DOMAIN project <=> Declares(l[2], name)
      /\ name \in DOMAIN project => (project[name].disabled <=> Disables(l[2], name))
  BY LayerFormatters
<1>7. ~Declares(l[1], name) => ~Disables(l[1], name)
  BY DEF Disables
<1> HIDE DEF global, project, object
<1>8. name \in DOMAIN object => (object[name].disabled <=> Disabled(name, l))
  BY <1>3, <1>4, <1>5, <1>6, <1>7 DEF Disabled
<1>9. QED
  BY <1>3, <1>4, <1>5, <1>6, <1>8 DEF object

(* A due chain, in the shape of the source and as the config holds it.        *)
WellFormed(chain) ==
  /\ chain \in Seq(ToSet(chain))
  /\ \A i \in DOMAIN chain :
       /\ chain[i].names \in Seq(ToSet(chain[i].names))
       /\ chain[i].kind = "single" => DOMAIN chain[i].names = {1}

LEMMA LoadedChains ==
  ASSUME NEW l \in Layers, NEW key
  PROVE  LET due == DueSteps(key, l)
         IN  /\ key \in DOMAIN Loaded(l).chains <=> due # <<>>
             /\ due # <<>> =>
                  /\ Loaded(l).chains[key] = ReadChain(key, due)
                  /\ WellFormed(due) /\ key \in ChainKeys
                  /\ \A i \in DOMAIN due : \A n \in ToSet(due[i].names) :
                       n \in DOMAIN Loaded(l).formatters \cup Builtins
<1> DEFINE global == Entry(Layer(l[1]), "chains")
           project == Entry(Layer(l[2]), "chains")
           object == Loaded(l).chains
<1>1. "chains" \in Objects
  BY DEF Objects
<1>2. DOMAIN DefaultConfig["chains"] = {}
  BY DEF DefaultConfig, None
<1>3. /\ DOMAIN object = DOMAIN global \cup DOMAIN project
      /\ \A k \in DOMAIN object :
           object[k] = IF k \in DOMAIN project THEN project[k] ELSE global[k]
  BY <1>1, <1>2, LoadedObject
<1>4. /\ key \in DOMAIN global <=> SoundChain(l[1], key)
      /\ key \in DOMAIN global => global[key] = ReadChain(key, l[1].chains[key])
  BY LayerChains
<1>5. /\ key \in DOMAIN project <=> SoundChain(l[2], key)
      /\ key \in DOMAIN project => project[key] = ReadChain(key, l[2].chains[key])
  BY LayerChains
<1> HIDE DEF global, project, object
<1>6. ASSUME NEW file \in {l[1], l[2]}, SoundChain(file, key)
      PROVE  /\ file.chains[key] # <<>> /\ WellFormed(file.chains[key]) /\ key \in ChainKeys
             /\ \A i \in DOMAIN file.chains[key] : \A n \in ToSet(file.chains[key][i].names) :
                  n \in DOMAIN Loaded(l).formatters \cup Builtins
  <2>1. /\ key \in DOMAIN Object(file, "chains") /\ key \in ChainKeys
        /\ Object(file, "chains")[key] \notin {Bad, <<>>}
        /\ \A i \in 1..Len(Object(file, "chains")[key]) :
             SoundStep(file, Object(file, "chains")[key][i])
    BY <1>6 DEF SoundChain
  <2>2. Object(file, "chains") = file.chains
    BY <2>1 DEF Object, None
  <2>3. file.chains[key] \in ChainsOf(file)
    BY <2>1, <2>2 DEF ChainsOf
  <2>4. WellFormed(file.chains[key])
    BY <2>3, LayersAssumption DEF WellFormed
  <2>5. DOMAIN file.chains[key] = 1..Len(file.chains[key])
    BY <2>4 DEF WellFormed
  <2>6. ASSUME NEW i \in DOMAIN file.chains[key], NEW n \in ToSet(file.chains[key][i].names)
        PROVE  n \in DOMAIN Loaded(l).formatters \cup Builtins
    <3>1. Knows(file, n)
      BY <2>1, <2>2, <2>5 DEF SoundStep
    <3>2. QED
      BY <3>1, LoadedFormatters DEF Knows
  <2>7. QED
    BY <2>1, <2>2, <2>4, <2>6
<1>7. CASE SoundChain(l[2], key)
  BY <1>3, <1>5, <1>6, <1>7 DEF DueSteps, object
<1>8. CASE ~SoundChain(l[2], key) /\ SoundChain(l[1], key)
  BY <1>3, <1>4, <1>5, <1>6, <1>8 DEF DueSteps, object
<1>9. CASE ~SoundChain(l[2], key) /\ ~SoundChain(l[1], key)
  BY <1>3, <1>4, <1>5, <1>9 DEF DueSteps, object
<1>10. QED
  BY <1>7, <1>8, <1>9

(* What a flush walks is what is due: the same steps, of the same names.      *)
THEOREM WalkedIsDue ==
  ASSUME NEW l \in Layers, NEW key
  PROVE  LET due == DueSteps(key, l)
             chain == Chain(Loaded(l), key)
         IN  /\ chain \in Chains /\ WellFormed(chain)
             /\ DOMAIN chain = 1..Len(due) /\ Len(due) \in Nat
             /\ \A i \in 1..Len(due) :
                  /\ chain[i].names = due[i].names /\ chain[i].kind = due[i].kind
                  /\ \A n \in ToSet(due[i].names) :
                       n \in DOMAIN Loaded(l).formatters \cup Builtins
<1> DEFINE due == DueSteps(key, l)
           chain == Chain(Loaded(l), key)
<1>1. CASE due = <<>>
  <2>1. chain = <<>>
    BY <1>1, LoadedChains DEF Chain
  <2>2. QED
    BY <1>1, <2>1 DEF WellFormed, Chains, ToSet
<1>2. CASE due # <<>>
  <2>1. /\ chain = ReadChain(key, due) /\ WellFormed(due) /\ key \in ChainKeys
        /\ \A i \in DOMAIN due : \A n \in ToSet(due[i].names) :
             n \in DOMAIN Loaded(l).formatters \cup Builtins
    BY <1>2, LoadedChains DEF Chain
  <2> HIDE DEF due, chain
  <2>2. Len(due) \in Nat /\ DOMAIN due = 1..Len(due)
    BY <2>1 DEF WellFormed
  <2>3. chain = [i \in 1..Len(due) |-> [kind |-> due[i].kind, names |-> due[i].names]]
    BY <2>1 DEF ReadChain
  <2>4. chain \in Seq(ToSet(chain)) /\ DOMAIN chain = 1..Len(due)
    BY <2>2, <2>3 DEF ToSet
  <2>5. WellFormed(chain)
    <3>1. ASSUME NEW i \in DOMAIN chain
          PROVE  /\ chain[i].names \in Seq(ToSet(chain[i].names))
                 /\ chain[i].kind = "single" => DOMAIN chain[i].names = {1}
      <4>1. chain[i].names = due[i].names /\ chain[i].kind = due[i].kind /\ i \in DOMAIN due
        BY <2>2, <2>3, <2>4
      <4>2. QED
        BY <2>1, <4>1 DEF WellFormed
    <3>2. QED
      BY <2>4, <3>1 DEF WellFormed
  <2>6. chain \in Chains
    BY <2>1 DEF Chains, chain
  <2>7. QED
    BY <2>1, <2>2, <2>3, <2>4, <2>5, <2>6 DEF due, chain
<1>3. QED
  BY <1>1, <1>2

-----------------------------------------------------------------------------
(* A flush, one group and one step at a time.                                 *)
LEMMA GroupTypes ==
  ASSUME NEW cfg, \A key : Chain(cfg, key) \in Chains, NEW files \in SUBSET File
  PROVE  GroupFilesByChain(files, cfg) \subseteq Group /\ NoGroup \in Group
<1>1. ASSUME NEW g \in GroupFilesByChain(files, cfg) PROVE g \in Group
  <2>1. PICK file \in files : file \in g.files
    BY GroupParts
  <2>2. g.chain = Chain(cfg, KeyOf(file, g.wildcard))
    BY <2>1, GroupParts
  <2>3. g.chain \in Chains
    BY <2>2
  <2>4. /\ g = [wildcard |-> g.wildcard, chain |-> g.chain, files |-> g.files]
        /\ g.wildcard \in BOOLEAN /\ g.files \subseteq files
    BY GroupParts
  <2>5. QED
    BY <2>3, <2>4 DEF Group
<1>2. NoGroup \in Group
  BY DEF NoGroup, Group, Chains
<1>3. QED
  BY <1>1, <1>2

(* A certain step resolves, to an ordinary formatter.                         *)
LEMMA CertainResolves ==
  ASSUME NEW cfg, NEW chain, WellFormed(chain), NEW s \in DOMAIN chain, Certain(chain[s], cfg)
  PROVE  /\ s \in ResolveChainSteps(chain, cfg)
         /\ Alternatives(chain[s], cfg) = {1}
<1>1. DOMAIN chain[s].names = {1}
  BY DEF WellFormed, Certain
<1>2. Resolves(chain[s].names[1], cfg)
  BY DEF Certain, Resolves
<1>3. QED
  BY <1>1, <1>2 DEF Alternatives, ResolveChainSteps

(* What went, or was claimed, stays so while the log grows.                   *)
LEMMA WentStays ==
  ASSUME NEW f, NEW e, Len(f.log) \in Nat, Len(e.log) \in Nat, Len(f.log) <= Len(e.log),
         \A j \in 1..Len(f.log) : e.log[j] = f.log[j],
         NEW file, NEW wildcard, NEW s, Went(f, file, wildcard, s)
  PROVE  Went(e, file, wildcard, s)
<1>1. \A j \in 1..Len(f.log) : j \in 1..Len(e.log) /\ e.log[j] = f.log[j]
  OBVIOUS
<1>2. CASE RunsOn(f, file, wildcard, s) # {}
  <2>1. RunsOn(e, file, wildcard, s) # {}
    BY <1>1, <1>2 DEF RunsOn
  <2>2. QED
    BY <2>1 DEF Went
<1>3. CASE ClaimedBefore(f, file, wildcard, s)
  <2>1. ClaimedBefore(e, file, wildcard, s)
    BY <1>1, <1>3 DEF ClaimedBefore
  <2>2. QED
    BY <2>1 DEF Went
<1>4. QED
  BY <1>2, <1>3 DEF Went

(* A file of the group that is not in the rest has been claimed before any    *)
(* step that is still to come.                                                *)
LEMMA NotRestIsClaimed ==
  ASSUME NEW f \in Flushes, NEW cfg, NEW rest, NEW n \in Nat, Logged(f, cfg),
         Within(f, rest, n, cfg), NEW file \in f.group.files \ rest, NEW s \in Nat, n <= s
  PROVE  ClaimedBefore(f, file, f.group.wildcard, s)
<1>1. f.log \in Seq(Run) /\ f.group.wildcard \in BOOLEAN
  BY DEF Flushes, Group
<1>2. CASE ~f.group.wildcard /\ file \in f.claimed
  <2>1. PICK j \in 1..Len(f.log) : f.log[j].wildcard /\ file \in f.log[j].handled
    BY <1>2 DEF Within, WildClaims
  <2>2. QED
    BY <2>1, <1>2 DEF ClaimedBefore
<1>3. CASE f.group.wildcard \/ file \notin f.claimed
  <2>1. file \in f.inputs
    BY <1>3 DEF Within, Inputs
  <2>2. file \in Handled(f)
    BY <2>1 DEF Within
  <2>3. PICK j \in 1..Len(f.log) : file \in f.log[j].handled
    BY <2>2 DEF Handled
  <2>4. file \in f.log[j].files
    BY <2>3 DEF Logged
  <2>5. f.log[j] \in Run
    BY <1>1, ElementOfSeq
  <2>6. f.log[j].wildcard \in BOOLEAN /\ f.log[j].step \in Nat
    BY <2>5 DEF Run
  <2>7. CASE f.log[j].wildcard = f.group.wildcard
    <3>1. f.log[j].step < n
      BY <2>4, <2>7 DEF Within
    <3>2. f.log[j].step < s
      BY <2>6, <3>1
    <3>3. QED
      BY <2>3, <2>7, <3>2 DEF ClaimedBefore
  <2>8. CASE f.log[j].wildcard # f.group.wildcard
    <3>1. ~f.group.wildcard
      BY <1>1, <2>6, <2>8 DEF Within
    <3>2. f.log[j].wildcard
      BY <1>1, <2>6, <2>8, <3>1
    <3>3. QED
      BY <2>3, <3>1, <3>2 DEF ClaimedBefore
  <2>9. QED
    BY <2>7, <2>8
<1>4. QED
  BY <1>1, <1>2, <1>3

(* A group the loop passes over leaves nothing undone.                        *)
LEMMA PassedOver ==
  ASSUME NEW f \in Flushes, Between(f, config), NEW g \in f.groups, g \notin Due(f),
         WellFormed(g.chain), NEW s \in DOMAIN g.chain
  PROVE  PastStep(f, g, s, config)
<1>1. CASE ResolveChainSteps(g.chain, config) = {}
  <2>1. ~Certain(g.chain[s], config)
    BY <1>1, CertainResolves
  <2>2. QED
    BY <2>1 DEF PastStep
<1>2. CASE Inputs(f, g) = {}
  <2>1. g \in GroupFilesByChain(ToSet(f.taken), config)
    BY DEF Between, Settled, GroupsOf
  <2>2. g.files # {}
    BY <2>1, GroupParts
  <2>3. ~g.wildcard /\ g.files \subseteq WildClaims(f)
    BY <1>2, <2>2 DEF Inputs, Between
  <2>4. ASSUME NEW file \in g.files PROVE Went(f, file, g.wildcard, s)
    <3>1. PICK j \in 1..Len(f.log) : f.log[j].wildcard /\ file \in f.log[j].handled
      BY <2>3 DEF WildClaims
    <3>2. QED
      BY <2>3, <3>1 DEF Went, ClaimedBefore
  <2>5. QED
    BY <2>4 DEF PastStep
<1>3. QED
  BY <1>1, <1>2 DEF Due

(* From one group to the next.                                                *)
LEMMA Enters ==
  ASSUME NEW f \in Flushes, Between(f, config), \A key : Chain(config, key) \in Chains,
         \A key : WellFormed(Chain(config, key))
  PROVE  Entered(f) \in Flushes /\ Walk(Entered(f), config)
<1> DEFINE e == Entered(f)
<1>1. /\ f.taken \in Seq(File) /\ f.groups \in SUBSET Group /\ f.log \in Seq(Run)
      /\ f.inputs \in SUBSET File /\ f.claimed \in SUBSET File
  BY DEF Flushes
<1>2. ToSet(f.taken) \in SUBSET File
  BY <1>1 DEF ToSet
<1>3. \A g \in GroupsOf(f, config) : g \in Group /\ WellFormed(g.chain) /\ g # NoGroup
  <2>1. ASSUME NEW g \in GroupsOf(f, config) PROVE WellFormed(g.chain) /\ g # NoGroup
    <3>1. g \in GroupFilesByChain(ToSet(f.taken), config)
      BY DEF GroupsOf
    <3>2. PICK file \in g.files : g.chain = Chain(config, KeyOf(file, g.wildcard))
      BY <3>1, GroupParts
    <3>3. g # NoGroup
      BY <3>1, GroupParts
    <3>4. QED
      BY <3>2, <3>3
  <2>2. GroupsOf(f, config) \subseteq Group
    BY <1>2, GroupTypes DEF GroupsOf
  <2>3. QED
    BY <2>1, <2>2
<1>4. NoGroup \in Group
  BY <1>2, GroupTypes
<1>5. f.groups \subseteq GroupsOf(f, config) /\ Logged(f, config)
  BY DEF Between, Settled
<1>6. \A g \in GroupsOf(f, config) \ Due(f) : \A s \in DOMAIN g.chain : PastStep(f, g, s, config)
  <2>1. ASSUME NEW g \in GroupsOf(f, config) \ Due(f), NEW s \in DOMAIN g.chain
        PROVE  PastStep(f, g, s, config)
    <3>1. CASE g \in f.groups
      BY <3>1, <1>3, PassedOver
    <3>2. CASE g \notin f.groups
      BY <3>2, <1>3 DEF Between, Settled
    <3>3. QED
      BY <3>1, <3>2
  <2>2. QED
    BY <2>1
<1>7. ASSUME NEW x \in Flushes, x.log = f.log, x.taken = f.taken, x.groups \subseteq Due(f),
             NEW but, \A g \in Due(f) \ x.groups : g = but
      PROVE  Settled(x, but, config)
  <2>1. GroupsOf(x, config) = GroupsOf(f, config) /\ x.groups \subseteq f.groups
    BY <1>7 DEF GroupsOf, Due
  <2>2. Logged(x, config)
    BY <1>5, <1>7, <2>1 DEF Logged
  <2>3. \A g, s : PastStep(f, g, s, config) => PastStep(x, g, s, config)
    BY <1>7 DEF PastStep, Went, RunsOn, ClaimedBefore
  <2>4. QED
    BY <1>5, <1>6, <1>7, <2>1, <2>2, <2>3 DEF Settled
<1>8. CASE Due(f) = {}
  <2>1. e = [f EXCEPT !.groups = {}, !.group = NoGroup, !.working = {}]
    BY <1>8 DEF Entered
  <2>2. /\ e \in Flushes /\ e.log = f.log /\ e.taken = f.taken /\ e.groups = {}
        /\ e.group = NoGroup /\ e.working = {}
    BY <1>4, <2>1 DEF Flushes
  <2> HIDE DEF e
  <2>3. Settled(e, e.group, config)
    BY <1>7, <1>8, <2>2
  <2>4. QED
    BY <2>2, <2>3 DEF Walk, e
<1>9. CASE Due(f) # {}
  <2> DEFINE g == NextGroup(f)
             steps == ResolveChainSteps(g.chain, config)
  <2>1. g \in Due(f) /\ \A h \in Due(f) : h.wildcard => g = h
    <3>1. Due(f) \subseteq GroupsOf(f, config)
      BY <1>5 DEF Due
    <3>2. \A h \in Due(f) : h.wildcard \in BOOLEAN
      BY <1>3, <3>1 DEF Group
    <3>3. \A h, k \in Due(f) : h.wildcard /\ k.wildcard => h = k
      <4>1. ASSUME NEW h \in Due(f), NEW k \in Due(f), h.wildcard, k.wildcard PROVE h = k
        <5>1. h \in GroupFilesByChain(ToSet(f.taken), config)
              /\ k \in GroupFilesByChain(ToSet(f.taken), config) /\ h.wildcard = k.wildcard
          BY <3>1, <3>2, <4>1 DEF GroupsOf
        <5>2. QED
          BY <5>1, <4>1, GroupsApart
      <4>2. QED
        BY <4>1
    <3>4. QED
      BY <1>1, <1>9, <3>2, <3>3, NextGroupDue
  <2> HIDE DEF g
  <2>2. /\ g \in f.groups /\ g \in Group /\ g \in GroupsOf(f, config) /\ WellFormed(g.chain)
        /\ Inputs(f, g) # {} /\ steps # {} /\ g # NoGroup
    BY <2>1, <1>3, <1>5 DEF Due
  <2>3. steps \in SUBSET (Nat \ {0})
    BY <2>2 DEF ResolveChainSteps, WellFormed
  <2>4. Earliest(steps) \in steps /\ \A s \in steps : Earliest(steps) <= s
    <3> HIDE DEF steps
    <3>1. QED
      BY <2>2, <2>3, EarliestPlace
  <2>5. e = [f EXCEPT !.groups = Due(f) \ {g}, !.group = g, !.at = Earliest(steps),
                      !.inputs = Inputs(f, g), !.working = Inputs(f, g)]
    BY <1>9 DEF Entered, g
  <2>6. Inputs(f, g) \in SUBSET File
    BY <2>2 DEF Inputs, Group
  <2>7. /\ e \in Flushes /\ e.log = f.log /\ e.taken = f.taken /\ e.groups = Due(f) \ {g}
        /\ e.group = g /\ e.at = Earliest(steps) /\ e.at \in Nat /\ e.claimed = f.claimed
        /\ e.inputs = Inputs(f, g) /\ e.working = Inputs(f, g)
    <3> DEFINE groups == Due(f) \ {g}
               at == Earliest(steps)
               inputs == Inputs(f, g)
    <3>1. groups \in SUBSET Group
      BY <1>1 DEF Due
    <3>2. at \in Nat
      BY <2>3, <2>4
    <3>3. inputs \in SUBSET File
      BY <2>6
    <3>4. e = [f EXCEPT !.groups = groups, !.group = g, !.at = at, !.inputs = inputs,
                        !.working = inputs]
      BY <2>5
    <3> HIDE DEF steps, e, groups, at, inputs
    <3>5. /\ e \in Flushes /\ e.log = f.log /\ e.taken = f.taken /\ e.groups = groups
          /\ e.group = g /\ e.at = at /\ e.claimed = f.claimed
          /\ e.inputs = inputs /\ e.working = inputs
      <4>1. g \in Group
        BY <2>2
      <4>2. QED
        BY <3>1, <3>2, <3>3, <3>4, <4>1 DEF Flushes
    <3>6. QED
      BY <3>2, <3>5 DEF groups, at, inputs
  <2> HIDE DEF e
  <2>8. Settled(e, e.group, config)
    BY <1>7, <2>7
  <2>9. e.at \in ResolveChainSteps(e.group.chain, config)
    BY <2>4, <2>7
  <2>10. GroupsOf(e, config) = GroupsOf(f, config)
    BY <2>7 DEF GroupsOf
  <2>11. \A h \in e.groups : ~h.wildcard
    BY <2>1, <2>7
  <2>12. e.inputs = Inputs(e, e.group)
    BY <2>7 DEF Inputs
  <2>13. f.log = <<>> \/ ~g.wildcard
    BY <2>2 DEF Between
  <2>14. \A j \in 1..Len(e.log) : ~e.log[j].wildcard => e.log[j].files \cap g.files = {}
    BY <1>5, <2>2, <2>7 DEF Logged
  <2>15. e.working = e.inputs \ Handled(e)
    <3>1. SUFFICES ASSUME NEW j \in 1..Len(e.log), NEW file \in e.log[j].handled, file \in e.inputs
                   PROVE  FALSE
      BY <2>7 DEF Handled
    <3>2. e.log \in Seq(Run) /\ e.log[j] \in Run
      BY <1>1, <2>7, ElementOfSeq
    <3>3. e.log # <<>>
      BY <3>2
    <3>4. ~g.wildcard
      BY <2>7, <2>13, <3>3
    <3>5. file \in g.files /\ file \notin f.claimed
      BY <2>7, <3>1, <3>4 DEF Inputs
    <3>6. file \in e.log[j].files
      BY <1>5, <2>7 DEF Logged
    <3>7. e.log[j].wildcard
      BY <2>14, <3>5, <3>6
    <3>8. file \in WildClaims(f)
      BY <2>7, <3>2, <3>7 DEF WildClaims, Run
    <3>9. QED
      BY <3>5, <3>8 DEF Between
  <2>16. IF g.wildcard
         THEN e.claimed = {} /\ \A j \in 1..Len(e.log) : e.log[j].wildcard
         ELSE e.claimed = WildClaims(e)
    <3>1. WildClaims(e) = WildClaims(f) /\ f.claimed = WildClaims(f)
      BY <2>7 DEF WildClaims, Between
    <3>2. f.log = <<>> => WildClaims(f) = {} /\ 1..Len(f.log) = {}
      BY DEF WildClaims
    <3>3. QED
      BY <2>7, <2>13, <3>1, <3>2
  <2>17. \A j \in 1..Len(e.log) :
           e.log[j].wildcard = g.wildcard /\ e.log[j].files \cap g.files # {}
             => e.log[j].step < e.at
    <3>1. f.log = <<>> => 1..Len(e.log) = {}
      BY <2>7
    <3>2. QED
      BY <2>13, <2>14, <3>1
  <2>18. \A s \in DOMAIN g.chain : s < e.at => PastStep(e, g, s, config)
    <3>1. ASSUME NEW s \in DOMAIN g.chain, s < e.at PROVE PastStep(e, g, s, config)
      <4>1. s \in Nat
        BY <2>2 DEF WellFormed
      <4>2. s \notin steps
        BY <2>4, <2>7, <3>1, <4>1
      <4>3. ~Certain(g.chain[s], config)
        BY <2>2, <4>2, CertainResolves
      <4>4. QED
        BY <4>3 DEF PastStep
    <3>2. QED
      BY <3>1
  <2>19. Within(e, e.working, e.at, config)
    BY <2>2, <2>7, <2>10, <2>11, <2>12, <2>15, <2>16, <2>17, <2>18 DEF Within
  <2>20. QED
    BY <2>2, <2>7, <2>8, <2>9, <2>19 DEF Walk, e
<1>10. QED
  BY <1>8, <1>9

(* A flush begins with everything that was touched.                           *)
LEMMA Begins ==
  ASSUME Types, NEW by \in {"turn", "agent", "shutdown"},
         \A key : Chain(config, key) \in Chains, \A key : WellFormed(Chain(config, key))
  PROVE  LET f == [Queued(by) EXCEPT !.began = TRUE, !.taken = touched,
                                     !.groups = GroupFilesByChain(ToSet(touched), config)]
         IN  f \in Flushes /\ Between(f, config)
<1> DEFINE groups == GroupFilesByChain(ToSet(touched), config)
           f == [Queued(by) EXCEPT !.began = TRUE, !.taken = touched, !.groups = groups]
<1>1. ToSet(touched) \in SUBSET File
  BY DEF Types, ToSet
<1>2. groups \in SUBSET Group /\ NoGroup \in Group
  BY <1>1, GroupTypes
<1>3. /\ Queued(by) \in Flushes /\ Queued(by).claimed = {} /\ Queued(by).log = <<>>
  BY <1>2 DEF Flushes, Queued
<1> HIDE DEF groups
<1>4. f \in Flushes
  BY <1>2, <1>3 DEF Flushes, Types
<1>5. f.groups = groups /\ f.taken = touched /\ f.claimed = {} /\ f.log = <<>>
  BY <1>3 DEF Flushes
<1> HIDE DEF f
<1>6. GroupsOf(f, config) = groups
  BY <1>5 DEF GroupsOf, groups
<1>7. 1..Len(f.log) = {}
  BY <1>5
<1>8. Logged(f, config)
  BY <1>7 DEF Logged
<1>9. f.claimed = WildClaims(f)
  BY <1>5, <1>7 DEF WildClaims
<1>10. Between(f, config)
  BY <1>5, <1>6, <1>8, <1>9 DEF Between, Settled
<1>11. QED
  BY <1>4, <1>10 DEF f, groups

(* Where a flush stands in its chain.                                         *)
LEMMA AtStep ==
  ASSUME NEW f \in Flushes, NEW cfg, Walk(f, cfg), f.group # NoGroup,
         \A key : WellFormed(Chain(cfg, key))
  PROVE  /\ f.at \in DOMAIN f.group.chain /\ f.at \in Nat \ {0} /\ WellFormed(f.group.chain)
         /\ f.group \in GroupFilesByChain(ToSet(f.taken), cfg)
         /\ f.working \subseteq f.inputs /\ f.inputs \subseteq f.group.files
         /\ f.group.files \subseteq ToSet(f.taken)
         /\ \A file \in f.group.files : f.group.chain = Chain(cfg, KeyOf(file, f.group.wildcard))
<1>1. f.group \in GroupFilesByChain(ToSet(f.taken), cfg)
  BY DEF Walk, Within, GroupsOf
<1>2. PICK x \in f.group.files : f.group.chain = Chain(cfg, KeyOf(x, f.group.wildcard))
  BY <1>1, GroupParts
<1>3. WellFormed(f.group.chain)
  BY <1>2
<1>4. f.at \in DOMAIN f.group.chain
  BY DEF Walk, ResolveChainSteps
<1>5. f.at \in Nat \ {0}
  BY <1>3, <1>4 DEF WellFormed
<1>6. f.working \subseteq f.inputs /\ f.inputs \subseteq f.group.files
  BY DEF Walk, Within, Inputs
<1>7. f.group.files \subseteq ToSet(f.taken)
      /\ \A file \in f.group.files : f.group.chain = Chain(cfg, KeyOf(file, f.group.wildcard))
  BY <1>1, GroupParts
<1>8. QED
  BY <1>1, <1>3, <1>4, <1>5, <1>6, <1>7

(* A step that leaves no run was not certain to.                              *)
LEMMA NothingRan ==
  ASSUME NEW f \in Flushes, NEW cfg, Walk(f, cfg), f.group # NoGroup,
         \A key : WellFormed(Chain(cfg, key)), ~Certain(f.group.chain[f.at], cfg)
  PROVE  Within(f, f.working, f.at + 1, cfg)
<1>1. f.at \in Nat /\ WellFormed(f.group.chain)
  BY AtStep
<1>2. Within(f, f.working, f.at, cfg)
  BY DEF Walk
<1>3. \A j \in 1..Len(f.log) : f.log[j].step < f.at => f.log[j].step < f.at + 1
  <2>1. ASSUME NEW j \in 1..Len(f.log), f.log[j].step < f.at PROVE f.log[j].step < f.at + 1
    <3>1. f.log \in Seq(Run)
      BY DEF Flushes
    <3>2. f.log[j] \in Run
      BY <3>1, ElementOfSeq
    <3>3. QED
      BY <1>1, <2>1, <3>2 DEF Run
  <2>2. QED
    BY <2>1
<1>4. \A s \in DOMAIN f.group.chain : s < f.at + 1 => PastStep(f, f.group, s, cfg)
  <2>1. ASSUME NEW s \in DOMAIN f.group.chain, s < f.at + 1 PROVE PastStep(f, f.group, s, cfg)
    <3>1. s \in Nat
      BY <1>1 DEF WellFormed
    <3>2. CASE s = f.at
      BY <3>2 DEF PastStep
    <3>3. CASE s < f.at
      BY <1>2, <3>3 DEF Within
    <3>4. QED
      BY <1>1, <2>1, <3>1, <3>2, <3>3
  <2>2. QED
    BY <2>1
<1>5. QED
  BY <1>2, <1>3, <1>4 DEF Within

(* A run of the step's formatter on the batch.                                *)
LEMMA SomethingRan ==
  ASSUME NEW f \in Flushes, NEW cfg, Walk(f, cfg), f.group # NoGroup,
         \A key : WellFormed(Chain(cfg, key)), \A key : Chain(cfg, key) \in Chains,
         NEW name \in ToSet(f.group.chain[f.at].names), Resolves(name, cfg),
         NEW handled \in SUBSET f.working
  PROVE  LET r == Ran(f, name, handled)
         IN  /\ r \in Flushes /\ Settled(r, r.group, cfg)
             /\ Within(r, r.working \ handled, r.at + 1, cfg)
             /\ r.group = f.group /\ r.at = f.at /\ r.working = f.working
<1> DEFINE r == Ran(f, name, handled)
           e == [wildcard |-> f.group.wildcard, step |-> f.at, name |-> name,
                 files |-> f.working, handled |-> handled]
           n == Len(f.log)
<1>1. /\ f.at \in DOMAIN f.group.chain /\ f.at \in Nat \ {0} /\ WellFormed(f.group.chain)
      /\ f.group \in GroupFilesByChain(ToSet(f.taken), cfg)
      /\ f.working \subseteq f.inputs /\ f.inputs \subseteq f.group.files
      /\ f.group.files \subseteq ToSet(f.taken)
      /\ \A file \in f.group.files : f.group.chain = Chain(cfg, KeyOf(file, f.group.wildcard))
  BY AtStep
<1>2. /\ f.log \in Seq(Run) /\ f.group \in Group /\ f.groups \in SUBSET Group
      /\ f.working \in SUBSET File /\ f.inputs \in SUBSET File /\ f.taken \in Seq(File)
  BY DEF Flushes
<1>3. e \in Run
  <2>1. name \in Names
    <3>1. \E file : file \in f.group.files
      BY <1>1, GroupParts
    <3>2. f.group.chain \in Chains
      BY <1>1, <3>1
    <3>3. QED
      BY <1>1, <3>2 DEF Names
  <2>2. QED
    BY <1>1, <1>2, <2>1 DEF Run, Group
<1>4. r = [f EXCEPT !.log = Append(@, e)]
  BY DEF Ran
<1>5. /\ Append(f.log, e) \in Seq(Run) /\ Len(Append(f.log, e)) = n + 1 /\ n \in Nat
      /\ \A j \in 1..n : Append(f.log, e)[j] = f.log[j]
      /\ Append(f.log, e)[n + 1] = e
  BY <1>2, <1>3, AppendProperties
<1> HIDE DEF e
<1>6. /\ r \in Flushes /\ r.group = f.group /\ r.at = f.at /\ r.working = f.working
      /\ r.groups = f.groups /\ r.inputs = f.inputs /\ r.claimed = f.claimed
      /\ r.taken = f.taken /\ r.log = Append(f.log, e)
  BY <1>4, <1>5 DEF Flushes
<1> HIDE DEF r, n
<1>7. /\ e.wildcard = f.group.wildcard /\ e.step = f.at /\ e.name = name
      /\ e.files = f.working /\ e.handled = handled
  BY DEF e
<1>8. /\ n \in Nat /\ 1..Len(r.log) = 1..n \cup {n + 1} /\ n + 1 \notin 1..n /\ r.log[n + 1] = e
      /\ Len(f.log) = n /\ Len(r.log) = n + 1
      /\ \A j \in 1..n : r.log[j] = f.log[j]
  BY <1>5, <1>6 DEF n
<1>9. /\ Logged(f, cfg) /\ f.groups \subseteq GroupsOf(f, cfg)
      /\ Within(f, f.working, f.at, cfg)
  BY DEF Walk, Settled
<1>10. Handled(r) = Handled(f) \cup handled
  BY <1>7, <1>8 DEF Handled
<1>11. f.working \cap Handled(f) = {}
  BY <1>9 DEF Within
<1>12. Logged(r, cfg)
  <2>1. \A j \in 1..Len(r.log) :
          LET d == r.log[j]
          IN  /\ d.files \subseteq ToSet(r.taken) /\ d.handled \subseteq d.files
              /\ Resolves(d.name, cfg)
              /\ \A file \in d.files :
                   LET chain == Chain(cfg, KeyOf(file, d.wildcard))
                   IN  d.step \in DOMAIN chain /\ d.name \in ToSet(chain[d.step].names)
              /\ ~d.wildcard => \A g \in r.groups : d.files \cap g.files = {}
    <3>1. ASSUME NEW g \in f.groups, ~f.group.wildcard PROVE f.working \cap g.files = {}
      <4>1. g \in GroupFilesByChain(ToSet(f.taken), cfg) /\ g # f.group /\ ~g.wildcard
        BY <1>9 DEF Within, GroupsOf
      <4>2. g.wildcard \in BOOLEAN /\ f.group.wildcard \in BOOLEAN
        BY <1>2 DEF Group
      <4>3. f.group.files \cap g.files = {}
        BY <1>1, <3>1, <4>1, <4>2, GroupsApart
      <4>4. QED
        BY <1>1, <4>3
    <3>2. \A file \in f.working :
            LET chain == Chain(cfg, KeyOf(file, f.group.wildcard))
            IN  f.at \in DOMAIN chain /\ name \in ToSet(chain[f.at].names)
      BY <1>1
    <3>3. f.working \subseteq ToSet(f.taken)
      BY <1>1
    <3>4. QED
      BY <1>6, <1>7, <1>8, <1>9, <3>1, <3>2, <3>3 DEF Logged
  <2>2. ASSUME NEW j \in 1..Len(r.log), NEW k \in 1..Len(r.log)
        PROVE  /\ j < k => r.log[j].handled \cap r.log[k].files = {}
               /\ /\ r.log[j].wildcard = r.log[k].wildcard /\ r.log[j].step = r.log[k].step
                  /\ r.log[j].files \cap r.log[k].files # {}
                  => j = k
    <3>1. ASSUME NEW i \in 1..n
          PROVE  /\ f.log[i].handled \cap f.working = {}
                 /\ ~(/\ f.log[i].wildcard = f.group.wildcard /\ f.log[i].step = f.at
                      /\ f.log[i].files \cap f.working # {})
      <4>1. f.log[i].handled \subseteq Handled(f)
        BY <1>8 DEF Handled
      <4>2. f.log[i].wildcard = f.group.wildcard /\ f.log[i].files \cap f.group.files # {}
              => f.log[i].step < f.at
        BY <1>8, <1>9 DEF Within
      <4>3. f.log[i].step = f.at => ~(f.log[i].step < f.at)
        BY <1>1
      <4>4. QED
        BY <1>1, <1>11, <4>1, <4>2, <4>3
    <3>2. CASE j \in 1..n /\ k \in 1..n
      <4>1. /\ j < k => f.log[j].handled \cap f.log[k].files = {}
            /\ /\ f.log[j].wildcard = f.log[k].wildcard /\ f.log[j].step = f.log[k].step
               /\ f.log[j].files \cap f.log[k].files # {}
               => j = k
        <5>1. j \in 1..Len(f.log) /\ k \in 1..Len(f.log)
          BY <1>8, <3>2
        <5>2. QED
          BY <1>9, <5>1 DEF Logged
      <4>2. r.log[j] = f.log[j] /\ r.log[k] = f.log[k]
        BY <1>8, <3>2
      <4>3. QED
        BY <4>1, <4>2
    <3>3. CASE j \in 1..n /\ k = n + 1
      BY <1>7, <1>8, <3>1, <3>3
    <3>4. CASE j = n + 1 /\ k \in 1..n
      <4>1. ~(j < k)
        BY <1>8, <3>4
      <4>2. QED
        BY <1>7, <1>8, <3>1, <3>4, <4>1
    <3>5. CASE j = n + 1 /\ k = n + 1
      BY <1>8, <3>5
    <3>6. QED
      BY <1>8, <3>2, <3>3, <3>4, <3>5
  <2>3. QED
    BY <2>1, <2>2 DEF Logged
<1>13. \A g, s : PastStep(f, g, s, cfg) => PastStep(r, g, s, cfg)
  <2>1. ASSUME NEW g, NEW s, PastStep(f, g, s, cfg), Certain(g.chain[s], cfg),
               NEW file \in g.files
        PROVE  Went(r, file, g.wildcard, s)
    <3>1. Went(f, file, g.wildcard, s)
      BY <2>1 DEF PastStep
    <3>2. n <= n + 1 /\ n + 1 \in Nat
      BY <1>8
    <3>3. QED
      BY <1>8, <3>1, <3>2, WentStays
  <2>2. QED
    BY <2>1 DEF PastStep
<1>14. Settled(r, r.group, cfg)
  <2>1. GroupsOf(r, cfg) = GroupsOf(f, cfg)
    BY <1>6 DEF GroupsOf
  <2>2. QED
    BY <1>6, <1>12, <1>13, <2>1 DEF Settled, Walk
<1>15. Within(r, r.working \ handled, r.at + 1, cfg)
  <2>1. GroupsOf(r, cfg) = GroupsOf(f, cfg) /\ Inputs(r, r.group) = Inputs(f, f.group)
    BY <1>6 DEF GroupsOf, Inputs
  <2>2. r.working \ handled = r.inputs \ Handled(r)
    BY <1>6, <1>9, <1>10 DEF Within
  <2>3. IF r.group.wildcard
        THEN r.claimed = {} /\ \A j \in 1..Len(r.log) : r.log[j].wildcard
        ELSE r.claimed = WildClaims(r)
    <3>1. CASE f.group.wildcard
      BY <1>6, <1>7, <1>8, <1>9, <3>1 DEF Within
    <3>2. CASE ~f.group.wildcard
      <4>1. WildClaims(r) = WildClaims(f)
        BY <1>7, <1>8, <3>2 DEF WildClaims
      <4>2. QED
        BY <1>6, <1>9, <3>2, <4>1 DEF Within
    <3>3. QED
      BY <3>1, <3>2
  <2>4. ASSUME NEW j \in 1..Len(r.log), r.log[j].wildcard = r.group.wildcard,
               r.log[j].files \cap r.group.files # {}
        PROVE  r.log[j].step < r.at + 1
    <3>1. CASE j \in 1..n
      <4>1. f.log[j].step < f.at
        BY <1>6, <1>8, <1>9, <2>4, <3>1 DEF Within
      <4>2. f.log[j] \in Run
        BY <1>2, <1>8, <3>1, ElementOfSeq
      <4>3. f.log[j].step \in Nat
        BY <4>2 DEF Run
      <4>4. QED
        BY <1>1, <1>6, <1>8, <3>1, <4>1, <4>3
    <3>2. CASE j = n + 1
      BY <1>1, <1>6, <1>7, <1>8, <3>2
    <3>3. QED
      BY <1>8, <3>1, <3>2
  <2>5. ASSUME NEW s \in DOMAIN r.group.chain, s < r.at + 1 PROVE PastStep(r, r.group, s, cfg)
    <3>1. s \in Nat
      BY <1>1, <1>6 DEF WellFormed
    <3>2. CASE s < f.at
      <4>1. PastStep(f, f.group, s, cfg)
        BY <1>6, <1>9, <3>2, <2>5 DEF Within
      <4>2. QED
        BY <1>6, <1>13, <4>1
    <3>3. CASE s = f.at
      <4>1. ASSUME NEW file \in f.group.files PROVE Went(r, file, f.group.wildcard, f.at)
        <5>1. CASE file \in f.working
          <6>1. n + 1 \in RunsOn(r, file, f.group.wildcard, f.at)
            BY <1>7, <1>8, <5>1 DEF RunsOn
          <6>2. QED
            BY <6>1 DEF Went
        <5>2. CASE file \notin f.working
          <6>1. ClaimedBefore(f, file, f.group.wildcard, f.at)
            <7>1. f.at \in Nat /\ f.at <= f.at
              BY <1>1
            <7>2. QED
              BY <1>9, <5>2, <7>1, NotRestIsClaimed
          <6>2. n <= n + 1 /\ n + 1 \in Nat
            BY <1>8
          <6>3. QED
            BY <1>8, <6>1, <6>2, WentStays DEF Went
        <5>3. QED
          BY <5>1, <5>2
      <4>2. QED
        BY <1>6, <3>3, <4>1 DEF PastStep
    <3>4. QED
      BY <1>1, <1>6, <2>5, <3>1, <3>2, <3>3
  <2>6. QED
    BY <1>6, <1>9, <2>1, <2>2, <2>3, <2>4, <2>5 DEF Within
<1>16. QED
  BY <1>6, <1>14, <1>15 DEF r

(* The rest of the batch goes on: to the next step, or the flush to the next  *)
(* group.                                                                     *)
LEMMA Advances ==
  ASSUME NEW f \in Flushes, NEW handled, \A key : Chain(config, key) \in Chains,
         \A key : WellFormed(Chain(config, key)), f.at \in Nat,
         Settled(f, f.group, config), Within(f, f.working \ handled, f.at + 1, config)
  PROVE  Advanced(f, handled) \in Flushes /\ Walk(Advanced(f, handled), config)
<1> DEFINE rest == f.working \ handled
           steps == ResolveChainSteps(f.group.chain, config)
<1>1. /\ f.log \in Seq(Run) /\ f.group \in Group /\ f.groups \in SUBSET Group
      /\ f.working \in SUBSET File /\ f.inputs \in SUBSET File /\ f.taken \in Seq(File)
      /\ f.claimed \in SUBSET File
  BY DEF Flushes
<1>2. f.group \in GroupFilesByChain(ToSet(f.taken), config)
  BY DEF Within, GroupsOf
<1>3. WellFormed(f.group.chain) /\ f.group # NoGroup
  <2>1. \E file : file \in f.group.files /\ f.group.chain = Chain(config, KeyOf(file, f.group.wildcard))
    BY <1>2, GroupParts
  <2>2. f.group # NoGroup
    BY <1>2, GroupParts
  <2>3. QED
    BY <2>1, <2>2
<1>4. DOMAIN f.group.chain \subseteq Nat \ {0}
  BY <1>3 DEF WellFormed
<1>5. StepsAhead(f) \in SUBSET (Nat \ {0}) /\ StepsAhead(f) = {s \in steps : s > f.at}
  BY <1>4 DEF StepsAhead, ResolveChainSteps
<1>6. Logged(f, config) /\ f.groups \subseteq GroupsOf(f, config)
  BY DEF Settled
<1>7. CASE rest # {} /\ StepsAhead(f) # {}
  <2> DEFINE e == Advanced(f, handled)
             next == Earliest(StepsAhead(f))
  <2>1. next \in StepsAhead(f) /\ \A s \in StepsAhead(f) : next <= s
    BY <1>5, <1>7, EarliestPlace
  <2>2. next \in Nat /\ next \in steps /\ next > f.at
    BY <1>5, <2>1
  <2>3. e = [f EXCEPT !.at = next, !.working = rest]
    BY <1>7 DEF Advanced
  <2> HIDE DEF next
  <2>4. /\ e \in Flushes /\ e.at = next /\ e.working = rest /\ e.group = f.group
        /\ e.groups = f.groups /\ e.inputs = f.inputs /\ e.claimed = f.claimed
        /\ e.taken = f.taken /\ e.log = f.log
    BY <1>1, <2>2, <2>3 DEF Flushes
  <2> HIDE DEF e
  <2>5. GroupsOf(e, config) = GroupsOf(f, config) /\ Inputs(e, e.group) = Inputs(f, f.group)
        /\ Handled(e) = Handled(f) /\ WildClaims(e) = WildClaims(f)
    BY <2>4 DEF GroupsOf, Inputs, Handled, WildClaims
  <2>6. \A g, s : PastStep(f, g, s, config) <=> PastStep(e, g, s, config)
    BY <2>4 DEF PastStep, Went, RunsOn, ClaimedBefore
  <2>7. Settled(e, e.group, config)
    BY <2>4, <2>5, <2>6 DEF Settled, Logged
  <2>8. ASSUME NEW s \in DOMAIN f.group.chain, s < next PROVE PastStep(e, f.group, s, config)
    <3>1. s \in Nat
      BY <1>4
    <3>2. CASE s < f.at + 1
      BY <2>6, <3>2 DEF Within
    <3>3. CASE ~(s < f.at + 1)
      <4>1. s > f.at /\ ~(next <= s)
        BY <2>2, <2>8, <3>1, <3>3
      <4>2. s \notin steps
        BY <1>5, <2>1, <4>1
      <4>3. ~Certain(f.group.chain[s], config)
        BY <1>3, <4>2, CertainResolves
      <4>4. QED
        BY <4>3 DEF PastStep
    <3>4. QED
      BY <3>2, <3>3
  <2>9. ASSUME NEW j \in 1..Len(e.log), e.log[j].wildcard = e.group.wildcard,
               e.log[j].files \cap e.group.files # {}
        PROVE  e.log[j].step < e.at
    <3>1. f.log[j].step < f.at + 1
      BY <2>4, <2>9 DEF Within
    <3>2. f.log[j] \in Run
      BY <1>1, <2>4, ElementOfSeq
    <3>3. f.log[j].step \in Nat
      BY <3>2 DEF Run
    <3>4. QED
      BY <2>2, <2>4, <3>1, <3>3
  <2>10. Within(e, e.working, e.at, config)
    BY <2>4, <2>5, <2>8, <2>9 DEF Within
  <2>11. QED
    BY <1>3, <2>2, <2>4, <2>7, <2>10 DEF Walk, e
<1>8. CASE ~(rest # {} /\ StepsAhead(f) # {})
  <2> DEFINE e == [f EXCEPT !.claimed = IF f.group.wildcard THEN f.inputs \ rest ELSE @]
  <2>1. Advanced(f, handled) = Entered(e)
    BY <1>8 DEF Advanced
  <2>2. /\ e \in Flushes /\ e.groups = f.groups /\ e.taken = f.taken /\ e.log = f.log
        /\ e.claimed = IF f.group.wildcard THEN f.inputs \ rest ELSE f.claimed
    BY <1>1 DEF Flushes
  <2> HIDE DEF e
  <2>3. \A g, s : PastStep(f, g, s, config) <=> PastStep(e, g, s, config)
    BY <2>2 DEF PastStep, Went, RunsOn, ClaimedBefore
  <2>4. ASSUME NEW s \in DOMAIN f.group.chain PROVE PastStep(f, f.group, s, config)
    <3>1. s \in Nat
      BY <1>4
    <3>2. CASE s < f.at + 1
      BY <3>2 DEF Within
    <3>3. CASE ~(s < f.at + 1) /\ rest = {}
      <4>1. f.at + 1 \in Nat /\ f.at + 1 <= s
        BY <3>1, <3>3
      <4>2. ASSUME NEW file \in f.group.files
            PROVE  ClaimedBefore(f, file, f.group.wildcard, s)
        <5>1. file \in f.group.files \ rest
          BY <3>3
        <5> HIDE DEF rest
        <5>2. Within(f, rest, f.at + 1, config)
          BY DEF rest
        <5>3. QED
          BY <1>6, <3>1, <4>1, <5>1, <5>2, NotRestIsClaimed
      <4>3. QED
        BY <4>2 DEF PastStep, Went
    <3>4. CASE ~(s < f.at + 1) /\ StepsAhead(f) = {}
      <4>1. s > f.at
        BY <3>1, <3>4
      <4>2. s \notin steps
        BY <1>5, <3>4, <4>1
      <4>3. ~Certain(f.group.chain[s], config)
        BY <1>3, <4>2, CertainResolves
      <4>4. QED
        BY <4>3 DEF PastStep
    <3>5. QED
      BY <1>8, <3>2, <3>3, <3>4
  <2>5. Settled(e, NoGroup, config)
    <3>1. GroupsOf(e, config) = GroupsOf(f, config)
      BY <2>2 DEF GroupsOf
    <3>2. Logged(e, config)
      BY <1>6, <2>2 DEF Logged
    <3>3. ASSUME NEW g \in GroupsOf(e, config) \ e.groups, NEW s \in DOMAIN g.chain
          PROVE  PastStep(e, g, s, config)
      <4>1. CASE g = f.group
        BY <2>3, <2>4, <4>1
      <4>2. CASE g # f.group
        BY <2>2, <2>3, <3>1, <4>2 DEF Settled
      <4>3. QED
        BY <4>1, <4>2
    <3>4. QED
      BY <1>6, <2>2, <3>1, <3>2, <3>3 DEF Settled
  <2>6. e.claimed = WildClaims(e)
    <3>1. WildClaims(e) = WildClaims(f)
      BY <2>2 DEF WildClaims
    <3>2. CASE ~f.group.wildcard
      BY <2>2, <3>1, <3>2 DEF Within
    <3>3. CASE f.group.wildcard
      <4>1. rest = f.inputs \ Handled(f) /\ f.inputs = f.group.files
            /\ \A j \in 1..Len(f.log) : f.log[j].wildcard
        BY <3>3 DEF Within, Inputs
      <4>2. f.group.files = ToSet(f.taken)
        BY <1>2, <3>3, GroupParts
      <4>3. Handled(f) \subseteq f.inputs
        <5>1. \A j \in 1..Len(f.log) : f.log[j].handled \subseteq ToSet(f.taken)
          BY <1>6 DEF Logged
        <5>2. QED
          BY <4>1, <4>2, <5>1 DEF Handled
      <4>4. WildClaims(f) = Handled(f)
        BY <1>1, <4>1, <4>3 DEF WildClaims, Handled
      <4>5. f.inputs \ rest = Handled(f)
        BY <4>1, <4>3
      <4>6. QED
        BY <2>2, <3>1, <3>3, <4>4, <4>5
    <3>4. QED
      BY <3>2, <3>3
  <2>7. \A g \in e.groups : ~g.wildcard
    BY <2>2 DEF Within
  <2>8. Between(e, config)
    BY <2>5, <2>6, <2>7 DEF Between
  <2>9. QED
    BY <2>1, <2>2, <2>8, Enters
<1>9. QED
  BY <1>7, <1>8

-----------------------------------------------------------------------------
(* The steps of the session.                                                  *)
LEMMA SameFlush ==
  ASSUME NEW f \in Flushes
  PROVE  /\ Entered(f).by = f.by /\ Entered(f).began = f.began /\ Entered(f).taken = f.taken
         /\ \A handled : /\ Advanced(f, handled).by = f.by
                         /\ Advanced(f, handled).began = f.began
                         /\ Advanced(f, handled).taken = f.taken
         /\ \A name, handled : /\ Ran(f, name, handled).by = f.by
                               /\ Ran(f, name, handled).began = f.began
                               /\ Ran(f, name, handled).taken = f.taken
<1> DEFINE Same(x) == x.by = f.by /\ x.began = f.began /\ x.taken = f.taken
<1>1. \A c : Same(Entered([f EXCEPT !.claimed = c]))
  BY DEF Entered, Flushes
<1>2. Same(Entered(f))
  BY DEF Entered, Flushes
<1>3. ASSUME NEW handled PROVE Same(Advanced(f, handled))
  <2>1. Advanced(f, handled) =
          IF f.working \ handled # {} /\ StepsAhead(f) # {}
          THEN [f EXCEPT !.at = Earliest(StepsAhead(f)), !.working = f.working \ handled]
          ELSE Entered([f EXCEPT !.claimed = IF f.group.wildcard
                                             THEN f.inputs \ (f.working \ handled)
                                             ELSE f.claimed])
    BY DEF Advanced, Flushes
  <2>2. Same([f EXCEPT !.at = Earliest(StepsAhead(f)), !.working = f.working \ handled])
    BY DEF Flushes
  <2>3. QED
    BY <1>1, <2>1, <2>2
<1>4. \A name, handled : Same(Ran(f, name, handled))
  BY DEF Ran, Flushes
<1>5. QED
  BY <1>2, <1>3, <1>4

LEMMA ConfigInForce ==
  ASSUME QueueInv, Up
  PROVE  /\ layers \in Layers /\ config = Loaded(layers)
         /\ \A key : Chain(config, key) \in Chains /\ WellFormed(Chain(config, key))
<1>1. layers \in Layers /\ config = Loaded(layers)
  BY DEF QueueInv
<1>2. QED
  BY <1>1, WalkedIsDue

(* One step of a flush, whatever is chosen and whatever it reports.           *)
LEMMA StepTaken ==
  ASSUME Types, QueueInv, WalkInv, NEW i \in 1..Len(flushes), RunStep(i)
  PROVE  \E x \in Flushes :
           /\ flushes' = [flushes EXCEPT ![i] = x] /\ Walk(x, config)
           /\ x.by = flushes[i].by /\ x.began = flushes[i].began /\ x.began
           /\ x.taken = flushes[i].taken
<1> DEFINE f == flushes[i]
           step == f.group.chain[f.at]
           choice == Choice(step, Batch(f), cache, config)
           name == step.names[choice.at]
           root == DiscoverRoot(name, Batch(f), choice.cache)
<1>1. f \in Flushes /\ f.group # NoGroup
  BY ElementOfSeq DEF Types, RunStep
<1>2. f.began
  <2>1. \A by : Queued(by).group = NoGroup
    BY DEF Queued
  <2>2. ~f.began => f = Queued(f.by)
    BY DEF QueueInv
  <2>3. QED
    BY <1>1, <2>1, <2>2
<1>3. Walk(f, config) /\ Up /\ flushes # <<>>
  BY <1>2 DEF WalkInv, QueueInv
<1>4. /\ \A key : Chain(config, key) \in Chains
      /\ \A key : WellFormed(Chain(config, key))
  BY <1>3, ConfigInForce
<1>5. /\ f.at \in DOMAIN f.group.chain /\ f.at \in Nat /\ WellFormed(f.group.chain)
      /\ Settled(f, f.group, config)
  BY <1>1, <1>3, <1>4, AtStep DEF Walk
<1>6. DOMAIN step.names \subseteq Nat \ {0}
  BY <1>5 DEF WellFormed
<1>7. /\ choice.at = 0 \/ choice.at \in Alternatives(step, config)
      /\ step.kind = "single" /\ Alternatives(step, config) # {} => choice.at # 0
  BY <1>6, ChosenAlternative
<1>8. choice.at # 0 => name \in ToSet(step.names) /\ Resolves(name, config)
  BY <1>7 DEF Alternatives, ToSet
<1>9. Certain(step, config) => choice.at = 1 /\ ~ResolveFormatterByName(name, config).builtin
  <2>1. Certain(step, config) => Alternatives(step, config) = {1}
    BY <1>5, CertainResolves
  <2>2. Certain(step, config) => choice.at = 1
    BY <1>7, <2>1 DEF Certain
  <2>3. step.names[1] \in DOMAIN config.formatters
          => ~ResolveFormatterByName(step.names[1], config).builtin
    BY DEF ResolveFormatterByName
  <2>4. QED
    BY <2>2, <2>3 DEF Certain
<1>10. ~Certain(step, config) => Walk(Advanced(f, {}), config) /\ Advanced(f, {}) \in Flushes
  <2>1. SUFFICES ASSUME ~Certain(step, config)
                 PROVE  Walk(Advanced(f, {}), config) /\ Advanced(f, {}) \in Flushes
    OBVIOUS
  <2>2. Within(f, f.working, f.at + 1, config)
    BY <1>1, <1>3, <1>4, <2>1, NothingRan
  <2>3. f.working \ {} = f.working
    OBVIOUS
  <2>4. Within(f, f.working \ {}, f.at + 1, config)
    BY <2>2, <2>3
  <2>5. QED
    BY <1>1, <1>4, <1>5, <2>4, Advances
<1>11. ASSUME choice.at # 0, NEW handled \in SUBSET f.working
       PROVE  /\ Walk(Advanced(Ran(f, name, handled), handled), config)
              /\ Advanced(Ran(f, name, handled), handled) \in Flushes
              /\ Ran(f, name, handled) \in Flushes
  <2> DEFINE r == Ran(f, name, handled)
  <2>1. /\ r \in Flushes /\ Settled(r, r.group, config)
        /\ Within(r, r.working \ handled, r.at + 1, config) /\ r.at = f.at
    BY <1>1, <1>3, <1>4, <1>8, <1>11, SomethingRan
  <2> HIDE DEF r
  <2>2. Walk(Advanced(r, handled), config) /\ Advanced(r, handled) \in Flushes
    BY <1>4, <1>5, <2>1, Advances
  <2>3. QED
    BY <2>1, <2>2 DEF r
<1> DEFINE Fits(x) == /\ x \in Flushes /\ Walk(x, config)
                      /\ x.by = f.by /\ x.began = f.began /\ x.began /\ x.taken = f.taken
<1>12. ~Certain(step, config) => Fits(Advanced(f, {}))
  BY <1>1, <1>2, <1>10, SameFlush
<1>13. ASSUME choice.at # 0, NEW handled \in SUBSET f.working
       PROVE  Fits(Advanced(Ran(f, name, handled), handled))
  <2> HIDE DEF f, step, choice, name, root
  <2>1. /\ Ran(f, name, handled).by = f.by /\ Ran(f, name, handled).began = f.began
        /\ Ran(f, name, handled).taken = f.taken
    BY <1>1, SameFlush
  <2>2. QED
    BY <1>2, <1>11, <1>13, <2>1, SameFlush
<1>14. \E x : flushes' = [flushes EXCEPT ![i] = x] /\ Fits(x)
  <2>1. CASE choice.at = 0 /\ flushes' = [flushes EXCEPT ![i] = Advanced(f, {})]
    <3>1. ~Certain(step, config)
      BY <1>9, <2>1
    <3>2. Fits(Advanced(f, {}))
      BY <1>12, <3>1
    <3> HIDE DEF Fits
    <3>3. QED
      BY <2>1, <3>2
  <2>2. CASE choice.at # 0 /\ flushes' = [flushes EXCEPT ![i] = Advanced(Ran(f, name, {}), {})]
    <3>1. Fits(Advanced(Ran(f, name, {}), {}))
      BY <1>13, <2>2
    <3>2. QED
      BY <2>2, <3>1
  <2>3. CASE /\ choice.at # 0 /\ ResolveFormatterByName(name, config).builtin
             /\ flushes' = [flushes EXCEPT ![i] = Advanced(f, {})]
    <3>1. Fits(Advanced(f, {}))
      BY <1>9, <1>12, <2>3
    <3> HIDE DEF Fits
    <3>2. QED
      BY <2>3, <3>1
  <2>4. CASE /\ choice.at # 0 /\ ResolveFormatterByName(name, config).builtin
             /\ \E r \in Reports(name, f.working) :
                  flushes' = [flushes EXCEPT ![i] =
                    Advanced(IF r.skip THEN f ELSE Ran(f, name, r.handled), r.handled)]
    <3>1. PICK r \in Reports(name, f.working) :
                 flushes' = [flushes EXCEPT ![i] =
                   Advanced(IF r.skip THEN f ELSE Ran(f, name, r.handled), r.handled)]
      BY <2>4
    <3>2. r.handled \in SUBSET f.working /\ (r.skip => r.handled = {})
      BY BuiltinReports
    <3>3. CASE r.skip
      <4>1. Fits(Advanced(f, {}))
        BY <1>9, <1>12, <2>4
      <4>2. flushes' = [flushes EXCEPT ![i] = Advanced(f, {})]
        BY <3>1, <3>2, <3>3
      <4>3. QED
        BY <4>1, <4>2
    <3>4. CASE ~r.skip
      <4>1. Fits(Advanced(Ran(f, name, r.handled), r.handled))
        BY <1>13, <2>4, <3>2
      <4>2. flushes' = [flushes EXCEPT ![i] = Advanced(Ran(f, name, r.handled), r.handled)]
        BY <3>1, <3>4
      <4>3. QED
        BY <4>1, <4>2
    <3>5. QED
      BY <3>3, <3>4
  <2> HIDE DEF Fits
  <2>5. QED
    BY <2>1, <2>2, <2>3, <2>4 DEF RunStep
<1>15. QED
  BY <1>14

(* A flush step leaves the invariant.                                         *)
LEMMA FlushSteps ==
  ASSUME IInv, FlushStep, phase' = phase, layers' = layers
  PROVE  IInv'
<1> USE DEF IInv
<1>0. /\ flushes \in Seq(Flushes) /\ touched \in Seq(File)
      /\ Len(flushes) \in Nat /\ DOMAIN flushes = 1..Len(flushes)
  BY DEF Types
<1>1. PICK i \in 1..Len(flushes) : BeginFlush(i) \/ RunStep(i) \/ EndFlush(i)
  BY DEF FlushStep
<1>2. flushes # <<>> /\ Up
  <2>1. Len(flushes) # 0
    BY <1>0, <1>1
  <2>2. flushes # <<>>
    BY <2>1, EmptySeq
  <2>3. QED
    BY <2>2 DEF QueueInv
<1>3. /\ layers \in Layers /\ config = Loaded(layers)
      /\ \A key : Chain(config, key) \in Chains
      /\ \A key : WellFormed(Chain(config, key))
  BY <1>2, ConfigInForce
<1>4. flushes[i] \in Flushes
  BY <1>0, ElementOfSeq
<1>5. ASSUME NEW x \in Flushes, flushes' = [flushes EXCEPT ![i] = x], x.by = flushes[i].by,
             x.began, i = 1, config' = config, Walk(x, config),
             ToSet(x.taken) \subseteq written, written' = written, touched' \in Seq(File)
      PROVE  Types' /\ QueueInv' /\ WalkInv'
  <2>1. /\ flushes' \in Seq(Flushes) /\ Len(flushes') = Len(flushes)
        /\ \A j \in 1..Len(flushes) : flushes'[j] = IF j = i THEN x ELSE flushes[j]
    BY <1>0, <1>5
  <2>2. Types'
    BY <1>5, <2>1 DEF Types
  <2>3. QueueInv'
    <3>1. Up' <=> Up
      BY <1>5 DEF Up
    <3>2. \A j \in 1..Len(flushes') :
            /\ flushes'[j].by = "shutdown" => j = Len(flushes') /\ phase' = "closing"
            /\ ~flushes'[j].began => flushes'[j] = Queued(flushes'[j].by)
            /\ flushes'[j].began => j = 1
      <4>1. \A j \in 1..Len(flushes) :
              /\ flushes[j].by = "shutdown" => j = Len(flushes) /\ phase' = "closing"
              /\ ~flushes[j].began => flushes[j] = Queued(flushes[j].by)
              /\ flushes[j].began => j = 1
        BY DEF QueueInv
      <4>2. ASSUME NEW j \in 1..Len(flushes)
            PROVE  /\ flushes'[j].by = "shutdown" => j = Len(flushes) /\ phase' = "closing"
                   /\ ~flushes'[j].began => flushes'[j] = Queued(flushes'[j].by)
                   /\ flushes'[j].began => j = 1
        <5>1. CASE j = i
          <6>1. flushes'[j] = x /\ x.by = flushes[j].by /\ x.began /\ j = 1
            BY <1>5, <2>1, <5>1
          <6>2. QED
            BY <4>1, <6>1
        <5>2. CASE j # i
          <6>1. flushes'[j] = flushes[j]
            BY <2>1, <5>2
          <6>2. QED
            BY <4>1, <6>1
        <5>3. QED
          BY <5>1, <5>2
      <4>3. QED
        BY <2>1, <4>2
    <3>3. QED
      BY <1>2, <1>3, <1>5, <3>1, <3>2 DEF QueueInv
  <2>4. WalkInv'
    <3>1. \A j \in 1..Len(flushes') :
            ToSet(flushes'[j].taken) \subseteq written'
            /\ (flushes'[j].began => Walk(flushes'[j], config'))
      BY <1>5, <2>1 DEF WalkInv
    <3>2. QED
      BY <3>1 DEF WalkInv
  <2>5. QED
    BY <2>2, <2>3, <2>4
<1>6. CASE BeginFlush(i)
  <2> DEFINE f == [flushes[i] EXCEPT !.began = TRUE, !.taken = touched,
                                     !.groups = GroupFilesByChain(ToSet(touched), config)]
             x == Entered(f)
  <2>1. /\ i = 1 /\ ~flushes[i].began /\ flushes' = [flushes EXCEPT ![i] = x]
        /\ touched' = <<>> /\ owed' = owed \ ToSet(touched) /\ config' = config
        /\ written' = written /\ late' = late
    BY <1>6 DEF BeginFlush, Chained
  <2>2. flushes[i] = Queued(flushes[i].by) /\ flushes[i].by \in {"turn", "agent", "shutdown"}
    BY <1>4, <2>1 DEF QueueInv, Flushes
  <2>3. f \in Flushes /\ Between(f, config)
    <3>1. LET by == flushes[i].by
              g == [Queued(by) EXCEPT !.began = TRUE, !.taken = touched,
                                      !.groups = GroupFilesByChain(ToSet(touched), config)]
          IN  g \in Flushes /\ Between(g, config)
      BY <1>3, <2>2, Begins
    <3>2. QED
      BY <2>2, <3>1
  <2>4. f.by = flushes[i].by /\ f.began /\ f.taken = touched
    BY <1>4 DEF Flushes
  <2> HIDE DEF f
  <2>5. x \in Flushes /\ Walk(x, config)
    BY <1>3, <2>3, Enters
  <2>6. x.by = flushes[i].by /\ x.began /\ x.taken = touched
    BY <2>3, <2>4, SameFlush
  <2>7. ToSet(x.taken) \subseteq written
    BY <2>6 DEF OwedInv
  <2> HIDE DEF x
  <2>8. Types' /\ QueueInv' /\ WalkInv'
    <3>1. /\ flushes' = [flushes EXCEPT ![i] = x] /\ x.by = flushes[i].by /\ x.began /\ i = 1
          /\ config' = config /\ written' = written
      BY <2>1, <2>6
    <3>2. touched' \in Seq(File)
      BY <2>1
    <3>3. QED
      BY <1>5, <2>5, <2>7, <3>1, <3>2
  <2>9. OwedInv'
    <3>1. owed' = {} /\ ToSet(touched') = {}
      BY <2>1 DEF OwedInv, ToSet
    <3>2. QED
      BY <2>1, <3>1 DEF OwedInv
  <2>10. QED
    BY <2>8, <2>9
<1>7. CASE RunStep(i)
  <2>1. PICK x \in Flushes :
           /\ flushes' = [flushes EXCEPT ![i] = x] /\ Walk(x, config)
           /\ x.by = flushes[i].by /\ x.began = flushes[i].began /\ x.began
           /\ x.taken = flushes[i].taken
    BY <1>7, StepTaken
  <2>2. /\ config' = config /\ touched' = touched /\ written' = written /\ owed' = owed
        /\ late' = late
    BY <1>7 DEF RunStep
  <2>3. i = 1 /\ ToSet(x.taken) \subseteq written
    BY <2>1 DEF QueueInv, WalkInv
  <2>4. Types' /\ QueueInv' /\ WalkInv'
    BY <1>0, <1>5, <2>1, <2>2, <2>3
  <2>5. Closing' <=> Closing
    BY <1>0, <2>1, <2>3 DEF Closing, QueueInv
  <2>6. OwedInv'
    BY <2>2, <2>5 DEF OwedInv, Up
  <2>7. QED
    BY <2>4, <2>6
<1>8. CASE EndFlush(i)
  <2>1. /\ Formatted(flushes[i]) /\ flushes[i].began /\ i = 1
        /\ flushes' = RemoveAt(flushes, i) /\ cache' = cache /\ written' = written
    BY <1>8 DEF EndFlush, Formatted, QueueInv
  <2>2. /\ flushes' \in Seq(Flushes) /\ Len(flushes') = Len(flushes) - 1
        /\ \A j \in 1..(Len(flushes) - 1) : flushes'[j] = flushes[j + 1]
    BY <1>0, <1>2, <2>1, FirstRemoved
  <2>3. \A j \in 1..Len(flushes') :
          /\ j + 1 \in 1..Len(flushes) /\ flushes'[j] = flushes[j + 1] /\ j + 1 # 1
          /\ (j + 1 = Len(flushes) <=> j = Len(flushes'))
    BY <1>0, <2>2
  <2>4. CASE flushes[i].by = "shutdown"
    <3>1. config' = NoConfig /\ touched' = <<>> /\ owed' = {} /\ late' = {}
      BY <1>8, <2>4 DEF EndFlush, Closed
    <3>2. Len(flushes') = 0 /\ flushes' = <<>>
      <4>1. i = Len(flushes)
        BY <2>4 DEF QueueInv
      <4>2. Len(flushes') = 0
        BY <1>0, <2>1, <2>2, <4>1
      <4>3. QED
        BY <2>2, <4>2, EmptySeq
    <3>3. ~Up' /\ ToSet(touched') = {} /\ touched' \in Seq(File) /\ 1..Len(flushes') = {}
      BY <3>1, <3>2 DEF Up, ToSet
    <3>4. QED
      BY <2>2, <3>1, <3>2, <3>3 DEF Types, QueueInv, OwedInv, WalkInv
  <2>5. CASE flushes[i].by # "shutdown"
    <3>1. /\ config' = config /\ touched' = touched /\ owed' = owed /\ late' = late
          /\ (Up' <=> Up)
      BY <1>8, <2>5 DEF EndFlush, Up
    <3>2. Types'
      BY <2>2, <3>1 DEF Types
    <3>3. QueueInv'
      <4>1. \A j \in 1..Len(flushes') :
              /\ flushes'[j].by = "shutdown" => j = Len(flushes') /\ phase' = "closing"
              /\ ~flushes'[j].began => flushes'[j] = Queued(flushes'[j].by)
              /\ flushes'[j].began => j = 1
        BY <2>3 DEF QueueInv
      <4>2. QED
        BY <1>2, <1>3, <3>1, <4>1 DEF QueueInv
    <3>4. OwedInv'
      <4>1. Closing' => Closing
        BY <2>3 DEF Closing
      <4>2. QED
        BY <2>1, <3>1, <4>1 DEF OwedInv
    <3>5. WalkInv'
      <4>1. \A j \in 1..Len(flushes') :
              ToSet(flushes'[j].taken) \subseteq written'
              /\ (flushes'[j].began => Walk(flushes'[j], config'))
        BY <2>1, <2>3, <3>1 DEF WalkInv
      <4>2. QED
        BY <4>1 DEF WalkInv
    <3>6. QED
      BY <3>2, <3>3, <3>4, <3>5
  <2>6. QED
    BY <2>4, <2>5
<1>9. QED
  BY <1>1, <1>6, <1>7, <1>8

(* Another flush is queued, the shutdown's when the session closes.           *)
LEMMA QueueSteps ==
  ASSUME IInv, NEW by \in {"turn", "agent", "shutdown"}, QueueFlush(by), phase # "closing",
         by = "shutdown" => phase' = "closing", layers' = layers
  PROVE  IInv'
<1> USE DEF IInv
<1>1. /\ Up /\ flushes' = Append(flushes, Queued(by)) /\ config' = config
      /\ touched' = touched /\ written' = written /\ owed' = owed /\ late' = late
  BY DEF QueueFlush
<1>2. /\ layers \in Layers /\ config = Loaded(layers) /\ \A key : Chain(config, key) \in Chains
  BY <1>1, ConfigInForce
<1>3. NoGroup \in Group
  BY <1>2, GroupTypes
<1>4. Queued(by) \in Flushes
  BY <1>3 DEF Queued, Flushes
<1>5. /\ Queued(by).by = by /\ ~Queued(by).began /\ ToSet(Queued(by).taken) = {}
  BY DEF Queued, ToSet
<1>6. /\ flushes \in Seq(Flushes) /\ Len(flushes) \in Nat
      /\ flushes' \in Seq(Flushes) /\ Len(flushes') = Len(flushes) + 1
      /\ \A j \in 1..Len(flushes) : flushes'[j] = flushes[j]
      /\ flushes'[Len(flushes) + 1] = Queued(by)
  BY <1>1, <1>4, AppendProperties DEF Types
<1>7. 1..Len(flushes') = 1..Len(flushes) \cup {Len(flushes')} /\ flushes'[Len(flushes')] = Queued(by)
      /\ Len(flushes') \notin 1..Len(flushes)
  BY <1>6
<1>8. \A j \in 1..Len(flushes) : flushes[j].by # "shutdown"
  BY DEF QueueInv
<1>9. Types'
  BY <1>1, <1>6 DEF Types
<1>10. QueueInv'
  <2>1. \A j \in 1..Len(flushes') :
          /\ flushes'[j].by = "shutdown" => j = Len(flushes') /\ phase' = "closing"
          /\ ~flushes'[j].began => flushes'[j] = Queued(flushes'[j].by)
          /\ flushes'[j].began => j = 1
    BY <1>5, <1>6, <1>7, <1>8 DEF QueueInv
  <2>2. Up' <=> Up
    BY <1>1 DEF Up
  <2>3. QED
    BY <1>1, <1>2, <2>1, <2>2 DEF QueueInv
<1>11. OwedInv'
  <2>1. ~Closing'
    BY <1>5, <1>6, <1>7, <1>8 DEF Closing
  <2>2. QED
    BY <1>1, <2>1 DEF OwedInv, Up
<1>12. WalkInv'
  <2>1. \A j \in 1..Len(flushes') :
          ToSet(flushes'[j].taken) \subseteq written'
          /\ (flushes'[j].began => Walk(flushes'[j], config'))
    BY <1>1, <1>5, <1>6, <1>7 DEF WalkInv
  <2>2. QED
    BY <2>1 DEF WalkInv
<1>13. QED
  BY <1>9, <1>10, <1>11, <1>12

(* Files are named: what is due of them is queued, and so are no others.      *)
LEMMA NamedSteps ==
  ASSUME IInv, Up, NEW spellings \in Seq(DOMAIN PathOf \cup {Blank}), NEW files,
         {f \in {PathOf[s] : s \in ToSet(spellings) \ {Blank}} : InScope(f, config)}
           = {f \in files : InScope(f, config)},
         touched' = Enqueue(touched, spellings, config), Reported(files),
         UNCHANGED <<config, flushes, phase, layers>>
  PROVE  IInv'
<1> USE DEF IInv
<1> DEFINE due == {f \in files : InScope(f, config)}
<1>1. touched' \in Seq(File) /\ ToSet(touched') = ToSet(touched) \cup due
  BY Enqueued DEF Types
<1>2. /\ written' = written \cup files /\ owed' = owed \cup due
      /\ late' = IF Closing THEN late \cup due ELSE late
      /\ due \subseteq files
  BY DEF Reported
<1>3. Closing' <=> Closing
  BY DEF Closing
<1>4. Up' /\ (Up' <=> Up)
  BY DEF Up
<1>5. Types' /\ QueueInv'
  BY <1>1, <1>4 DEF Types, QueueInv
<1> HIDE DEF due
<1>6. OwedInv'
  BY <1>1, <1>2, <1>3, <1>4 DEF OwedInv
<1>7. WalkInv'
  BY <1>2 DEF WalkInv
<1>8. QED
  BY <1>5, <1>6, <1>7

LEMMA FormatterKept ==
  ASSUME IInv, UNCHANGED formatVars, layers' = layers \/ ~Up,
         phase = "closing" => phase' = "closing" \/ ~Up
  PROVE  IInv'
<1> USE DEF IInv, formatVars
<1>1. (Up' <=> Up) /\ (Closing' <=> Closing)
  BY DEF Up, Closing
<1>2. QueueInv'
  <2>1. CASE Up
    BY <1>1, <2>1 DEF QueueInv
  <2>2. CASE ~Up
    <3>1. flushes = <<>> /\ 1..Len(flushes) = {}
      BY <2>2 DEF QueueInv
    <3>2. QED
      BY <1>1, <2>2, <3>1 DEF QueueInv
  <2>3. QED
    BY <2>1, <2>2
<1>3. QED
  BY <1>1, <1>2 DEF Types, OwedInv, WalkInv

LEMMA InvInit == Init => IInv
<1> SUFFICES ASSUME Init PROVE IInv
  OBVIOUS
<1>1. flushes = <<>> /\ touched = <<>> /\ ~Up /\ owed = {}
  BY DEF Init, FormatInit, Up
<1>2. 1..Len(flushes) = {} /\ ToSet(touched) = {}
  BY <1>1 DEF ToSet
<1>3. QED
  BY <1>1, <1>2 DEF IInv, Types, QueueInv, OwedInv, WalkInv

LEMMA InvNext == IInv /\ [Next]_vars => IInv'
<1> SUFFICES ASSUME IInv, [Next]_vars PROVE IInv'
  OBVIOUS
<1>1. ASSUME NEW l \in Layers, NEW found, NEW exists, NEW onStartup,
             SessionStart(l, found, exists, onStartup)
      PROVE  IInv'
  <2>1. /\ ~Up /\ config' = Loaded(l) /\ layers' = l /\ written' = {} /\ owed' = {} /\ late' = {}
        /\ touched' = touched /\ flushes' = flushes
    BY <1>1 DEF SessionStart, LoadSession, Loaded
  <2>2. touched = <<>> /\ flushes = <<>>
    BY <2>1 DEF IInv, QueueInv, OwedInv
  <2>3. 1..Len(flushes') = {} /\ ToSet(touched') = {}
    BY <2>1, <2>2 DEF ToSet
  <2>4. QED
    BY <2>1, <2>2, <2>3 DEF IInv, Types, QueueInv, OwedInv, WalkInv
<1>2. ASSUME NEW r \in Results, ToolResult(r) PROVE IInv'
  <2>1. RecordToolResult(r) /\ UNCHANGED <<phase, layers>> /\ Up
    BY <1>2 DEF ToolResult, RecordToolResult
  <2>2. CASE r.error
    <3>1. UNCHANGED formatVars
      BY <2>1, <2>2 DEF RecordToolResult, formatVars
    <3>2. QED
      BY <2>1, <3>1, FormatterKept
  <2>3. CASE ~r.error
    <3> DEFINE found == Candidates(config, r)
               files == IF Detects(config, r) THEN r.truth ELSE {}
    <3>1. layers \in Layers /\ config = Loaded(layers)
      BY <2>1, ConfigInForce DEF IInv
    <3>2. /\ found \in Seq(DOMAIN PathOf \cup {Blank})
          /\ {f \in {PathOf[s] : s \in ToSet(found) \ {Blank}} : InScope(f, config)}
               = {f \in files : InScope(f, config)}
      BY <2>3, <3>1, DetectionAssumption
    <3>3. /\ touched' = Enqueue(touched, found, config) /\ Reported(files)
          /\ UNCHANGED <<config, flushes, phase, layers>>
      BY <2>1, <2>3 DEF RecordToolResult
    <3> HIDE DEF found, files
    <3>4. QED
      BY <2>1, <3>2, <3>3, NamedSteps
  <2>4. QED
    BY <2>2, <2>3
<1>3. ASSUME NEW s \in Touches, Touch(s) PROVE IInv'
  <2>1. /\ Up /\ touched' = Enqueue(touched, <<s>>, config) /\ Reported({PathOf[s]})
        /\ UNCHANGED <<config, flushes, phase, layers>>
    BY <1>3 DEF Touch, BusTouch
  <2>2. s \in DOMAIN PathOf /\ s # Blank
    BY TouchAssumption
  <2>3. <<s>> \in Seq(DOMAIN PathOf \cup {Blank}) /\ ToSet(<<s>>) = {s}
    BY <2>2 DEF ToSet
  <2>4. {f \in {PathOf[t] : t \in ToSet(<<s>>) \ {Blank}} : InScope(f, config)}
          = {f \in {PathOf[s]} : InScope(f, config)}
    BY <2>2, <2>3
  <2>5. QED
    BY <2>1, <2>3, <2>4, NamedSteps
<1>4. CASE TurnEnds
  <2>1. QueueFlush("turn") /\ phase # "closing" /\ layers' = layers
    BY <1>4 DEF TurnEnds, Proceed
  <2>2. QED
    BY <2>1, QueueSteps
<1>5. CASE AgentEnds
  <2>1. QueueFlush("agent") /\ phase # "closing" /\ layers' = layers
    BY <1>5 DEF AgentEnds, Proceed
  <2>2. QED
    BY <2>1, QueueSteps
<1>6. CASE Quit
  <2>1. QueueFlush("shutdown") /\ phase # "closing" /\ phase' = "closing" /\ layers' = layers
    BY <1>6 DEF Quit, Proceed
  <2>2. QED
    BY <2>1, QueueSteps
<1>7. CASE AgentStarts \/ NextTurn \/ AgentIdle
  <2>1. UNCHANGED formatVars /\ layers' = layers /\ phase # "closing"
    BY <1>7 DEF AgentStarts, NextTurn, AgentIdle, Proceed
  <2>2. QED
    BY <2>1, FormatterKept
<1>8. CASE Flush
  <2>1. FlushStep /\ phase' = phase /\ layers' = layers
    BY <1>8 DEF Flush, SameHost
  <2>2. QED
    BY <2>1, FlushSteps
<1>9. CASE Index \/ Command \/ CloseIndex
  <2>1. UNCHANGED formatVars /\ layers' = layers /\ phase' = phase
    BY <1>9 DEF Index, Command, CloseIndex, SameHost
  <2>2. QED
    BY <2>1, FormatterKept
<1>10. CASE SessionEnds
  <2>1. UNCHANGED formatVars /\ ~Up
    BY <1>10 DEF SessionEnds
  <2>2. QED
    BY <2>1, FormatterKept
<1>11. CASE UNCHANGED vars
  <2>1. UNCHANGED formatVars /\ layers' = layers /\ phase' = phase
    BY <1>11 DEF vars
  <2>2. QED
    BY <2>1, FormatterKept
<1>12. QED
  BY <1>1, <1>2, <1>3, <1>4, <1>5, <1>6, <1>7, <1>8, <1>9, <1>10, <1>11 DEF Next

THEOREM SessionInvariant == Spec => []IInv
BY InvInit, InvNext, PTL DEF Spec

-----------------------------------------------------------------------------
(* A flush that is there walks the chains of the files' own config.           *)
LEMMA FlushFacts ==
  ASSUME IInv, NEW i \in 1..Len(flushes)
  PROVE  /\ layers \in Layers /\ config = Loaded(layers)
         /\ flushes[i] \in Flushes /\ ToSet(flushes[i].taken) \subseteq written
         /\ flushes[i].began => i = 1 /\ Walk(flushes[i], config) /\ Logged(flushes[i], config)
         /\ ~flushes[i].began => flushes[i].log = <<>> /\ flushes[i].working = {}
<1> USE DEF IInv
<1>1. flushes # <<>> /\ flushes \in Seq(Flushes)
  BY DEF Types
<1>2. layers \in Layers /\ config = Loaded(layers)
  BY <1>1 DEF QueueInv
<1>3. flushes[i] \in Flushes
  BY <1>1, ElementOfSeq
<1>4. ToSet(flushes[i].taken) \subseteq written
  BY DEF WalkInv
<1>5. flushes[i].began => i = 1 /\ Walk(flushes[i], config) /\ Logged(flushes[i], config)
  BY DEF WalkInv, QueueInv, Walk, Settled
<1>6. ~flushes[i].began => flushes[i].log = <<>> /\ flushes[i].working = {}
  <2>1. ASSUME NEW by PROVE Queued(by).log = <<>> /\ Queued(by).working = {}
    BY DEF Queued
  <2>2. ~flushes[i].began => flushes[i] = Queued(flushes[i].by)
    BY DEF QueueInv
  <2>3. QED
    BY <2>1, <2>2
<1>7. QED
  BY <1>2, <1>3, <1>4, <1>5, <1>6

(* A formatter that resolves is one no file disables.                         *)
LEMMA ResolvesIsEnabled ==
  ASSUME NEW l, NEW name, Resolves(name, Loaded(l))
  PROVE  ~Disabled(name, l)
<1>1. CASE name \in DOMAIN Loaded(l).formatters
  BY <1>1, LoadedFormatters DEF Resolves
<1>2. CASE name \notin DOMAIN Loaded(l).formatters
  <2>1. ~Declares(l[1], name) /\ ~Declares(l[2], name)
    BY <1>2, LoadedFormatters
  <2>2. QED
    BY <2>1 DEF Disabled, Disables
<1>3. QED
  BY <1>1, <1>2

LEMMA RunsAreConfigured == IInv => OnlyConfiguredRuns
<1> SUFFICES ASSUME IInv, NEW i \in 1..Len(flushes), NEW j \in 1..Len(flushes[i].log)
             PROVE  LET run == flushes[i].log[j]
                    IN  /\ run.files \subseteq written /\ ~Disabled(run.name, layers)
                        /\ \A file \in run.files :
                             /\ run.step \in 1..Len(DueOn(file, run.wildcard))
                             /\ run.name \in ToSet(DueOn(file, run.wildcard)[run.step].names)
  BY DEF OnlyConfiguredRuns
<1> DEFINE f == flushes[i]
           run == f.log[j]
<1>1. /\ layers \in Layers /\ config = Loaded(layers) /\ ToSet(f.taken) \subseteq written
      /\ f.began => Logged(f, config)
      /\ ~f.began => f.log = <<>>
  BY FlushFacts
<1>2. f.log # <<>>
  OBVIOUS
<1>3. Logged(f, config)
  BY <1>1, <1>2
<1>4. /\ run.files \subseteq ToSet(f.taken) /\ Resolves(run.name, config)
      /\ \A file \in run.files :
           LET chain == Chain(config, KeyOf(file, run.wildcard))
           IN  run.step \in DOMAIN chain /\ run.name \in ToSet(chain[run.step].names)
  BY <1>3 DEF Logged
<1> HIDE DEF f, run
<1>5. ~Disabled(run.name, layers)
  BY <1>1, <1>4, ResolvesIsEnabled
<1>6. ASSUME NEW file \in run.files
      PROVE  /\ run.step \in 1..Len(DueOn(file, run.wildcard))
             /\ run.name \in ToSet(DueOn(file, run.wildcard)[run.step].names)
  <2>1. DueOn(file, run.wildcard) = DueSteps(KeyOf(file, run.wildcard), layers)
    BY DEF DueOn, KeyOf
  <2>2. QED
    BY <1>1, <1>4, <2>1, WalkedIsDue
<1>7. QED
  BY <1>1, <1>4, <1>5, <1>6 DEF f, run

(* A formatter runs on a file only if the file was reported written and the   *)
(* chain that counts for it names the formatter at that step, and no file     *)
(* disables it.                                                               *)
THEOREM OnlyConfiguredRunsAlways == Spec => []OnlyConfiguredRuns
BY SessionInvariant, RunsAreConfigured, PTL

-----------------------------------------------------------------------------
(* At most one run of a flush is of a given file and step.                    *)
LEMMA RunsOnce ==
  ASSUME NEW f, NEW cfg, Logged(f, cfg), NEW file, NEW wildcard, NEW step
  PROVE  Cardinality(RunsOn(f, file, wildcard, step)) <= 1
<1> DEFINE runs == RunsOn(f, file, wildcard, step)
<1>1. \A j, k \in runs : j = k
  BY DEF RunsOn, Logged
<1>2. runs = {} \/ \E j : runs = {j}
  BY <1>1
<1>3. Cardinality(runs) = 0 \/ Cardinality(runs) = 1
  <2> HIDE DEF runs
  <2>1. QED
    BY <1>2, FS_EmptySet, FS_Singleton
<1>4. QED
  BY <1>3

(* Once a flush is formatted, each file has been through each step that is    *)
(* sure, or was claimed before it.                                            *)
LEMMA SureStepsWent ==
  ASSUME IInv, NEW i \in 1..Len(flushes), Formatted(flushes[i]),
         NEW file \in ToSet(flushes[i].taken), NEW wildcard \in BOOLEAN,
         NEW s \in 1..Len(DueOn(file, wildcard)), Sure(DueOn(file, wildcard)[s])
  PROVE  Went(flushes[i], file, wildcard, s)
<1> DEFINE f == flushes[i]
           key == KeyOf(file, wildcard)
           due == DueOn(file, wildcard)
           chain == Chain(config, key)
<1>1. /\ layers \in Layers /\ config = Loaded(layers) /\ Walk(f, config)
  BY FlushFacts DEF Formatted
<1>2. due = DueSteps(key, layers)
  BY DEF DueOn, KeyOf
<1>3. /\ WellFormed(chain) /\ DOMAIN chain = 1..Len(due) /\ s \in DOMAIN chain
      /\ chain[s].names = due[s].names /\ chain[s].kind = due[s].kind
      /\ \A n \in ToSet(due[s].names) : n \in DOMAIN config.formatters \cup Builtins
  BY <1>1, <1>2, WalkedIsDue
<1>4. Certain(chain[s], config)
  <2>1. /\ due[s].kind = "single" /\ ~Disabled(due[s].names[1], layers)
        /\ due[s].names[1] \notin Builtins
    BY DEF Sure
  <2>2. 1 \in DOMAIN chain[s].names
    BY <1>3, <2>1 DEF WellFormed
  <2>3. due[s].names[1] \in DOMAIN config.formatters
    BY <1>3, <2>1, <2>2 DEF ToSet
  <2>4. ~config.formatters[due[s].names[1]].disabled
    BY <1>1, <2>1, <2>3, LoadedFormatters
  <2>5. QED
    BY <1>3, <2>1, <2>3, <2>4 DEF Certain
<1>5. PICK g \in GroupsOf(f, config) :
         g.wildcard = wildcard /\ file \in g.files /\ g.chain = chain
  <2>1. chain # <<>>
    BY <1>3
  <2>2. QED
    BY <2>1, GroupOf DEF GroupsOf
<1>6. g \notin f.groups /\ g # f.group
  <2>1. f.group = NoGroup /\ f.groups = {}
    BY <1>1 DEF Formatted, Walk
  <2>2. g # NoGroup
    BY <1>5, GroupParts DEF GroupsOf
  <2>3. QED
    BY <2>1, <2>2
<1>7. PastStep(f, g, s, config)
  BY <1>1, <1>3, <1>5, <1>6 DEF Walk, Settled
<1>8. QED
  BY <1>4, <1>5, <1>7 DEF PastStep

LEMMA FlushesAreExact == IInv => DispatchIsExact
<1> SUFFICES ASSUME IInv PROVE DispatchIsExact
  OBVIOUS
<1>1. ASSUME NEW i \in 1..Len(flushes), NEW j \in 1..Len(flushes), i # j
      PROVE  flushes[i].working \cap flushes[j].working = {}
  BY <1>1, FlushFacts
<1>2. ASSUME NEW i \in 1..Len(flushes),
             NEW j \in 1..Len(flushes[i].log), NEW k \in 1..Len(flushes[i].log), j < k
      PROVE  flushes[i].log[j].handled \cap flushes[i].log[k].files = {}
  <2>1. flushes[i].log # <<>>
    OBVIOUS
  <2>2. Logged(flushes[i], config)
    BY <2>1, FlushFacts
  <2>3. QED
    BY <1>2, <2>2 DEF Logged
<1>3. ASSUME NEW i \in 1..Len(flushes), Formatted(flushes[i]),
             NEW file \in ToSet(flushes[i].taken), NEW wildcard \in BOOLEAN,
             NEW s \in 1..Len(DueOn(file, wildcard))
      PROVE  /\ Cardinality(RunsOn(flushes[i], file, wildcard, s)) <= 1
             /\ Sure(DueOn(file, wildcard)[s]) =>
                  \/ RunsOn(flushes[i], file, wildcard, s) # {}
                  \/ ClaimedBefore(flushes[i], file, wildcard, s)
  <2>1. Logged(flushes[i], config)
    BY <1>3, FlushFacts DEF Formatted
  <2>2. Cardinality(RunsOn(flushes[i], file, wildcard, s)) <= 1
    BY <2>1, RunsOnce
  <2>3. Sure(DueOn(file, wildcard)[s]) => Went(flushes[i], file, wildcard, s)
    BY <1>3, SureStepsWent
  <2>4. QED
    BY <2>2, <2>3 DEF Went
<1>4. QED
  BY <1>1, <1>2, <1>3 DEF DispatchIsExact

(* Each file of a flush goes through its chains once: at most one formatter   *)
(* of each step, an enabled one named alone without fail unless the file was  *)
(* claimed before, and nothing after a claim; no two flushes hold one file.   *)
THEOREM DispatchIsExactAlways == Spec => []DispatchIsExact
BY SessionInvariant, FlushesAreExact, PTL

-----------------------------------------------------------------------------
(* Only the shutdown's own flush, at its end, takes the session down.         *)
LEMMA SessionGoesDown ==
  ASSUME IInv, [Next]_vars, Up, ~Up'
  PROVE  owed \subseteq late
<1>1. config' # config
  BY DEF Up
<1>2. Flush
  <2>1. Next
    BY <1>1 DEF vars, formatVars
  <2>2. ASSUME NEW l \in Layers, NEW found, NEW exists, NEW onStartup,
               SessionStart(l, found, exists, onStartup)
        PROVE  FALSE
    BY <2>2 DEF SessionStart, LoadSession
  <2>3. ASSUME NEW r \in Results, ToolResult(r) PROVE FALSE
    BY <1>1, <2>3 DEF ToolResult, RecordToolResult
  <2>4. ASSUME NEW s \in Touches, Touch(s) PROVE FALSE
    BY <1>1, <2>4 DEF Touch, BusTouch
  <2>5. CASE TurnEnds \/ AgentEnds \/ Quit
    BY <1>1, <2>5 DEF TurnEnds, AgentEnds, Quit, QueueFlush
  <2>6. CASE AgentStarts \/ NextTurn \/ AgentIdle \/ Index \/ Command \/ CloseIndex \/ SessionEnds
    BY <1>1, <2>6
       DEF AgentStarts, NextTurn, AgentIdle, Index, Command, CloseIndex, SessionEnds, formatVars
  <2>7. QED
    BY <2>1, <2>2, <2>3, <2>4, <2>5, <2>6 DEF Next
<1>3. PICK i \in 1..Len(flushes) : BeginFlush(i) \/ RunStep(i) \/ EndFlush(i)
  BY <1>2 DEF Flush, FlushStep
<1>4. EndFlush(i)
  BY <1>1, <1>3 DEF BeginFlush, RunStep
<1>5. flushes[i].by = "shutdown" /\ flushes[i].began
  BY <1>1, <1>4 DEF EndFlush, Formatted
<1>6. Closing
  BY <1>5 DEF Closing
<1>7. QED
  BY <1>6 DEF IInv, OwedInv

(* What was written and is in scope, a flush has taken by the time the        *)
(* session is gone, unless it was reported during the last flush.             *)
THEOREM NothingWrittenIsLostAlways == Spec => NothingWrittenIsLost
<1>1. IInv /\ [Next]_vars => [Up /\ ~Up' => owed \subseteq late]_vars
  BY SessionGoesDown
<1>2. QED
  BY <1>1, SessionInvariant, PTL DEF Spec, NothingWrittenIsLost
=============================================================================
