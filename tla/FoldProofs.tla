---------------------------- MODULE FoldProofs ----------------------------
(***************************************************************************)
(* Proofs about the components whose work is a loop over a list: the       *)
(* recompiler's command line and its configuration file, the cartridge     *)
(* header's checksum, the evaluation of a line's sprites, and the input    *)
(* script and VGM capture of a headless run.  The models write those loops *)
(* as folds or as recursive functions over the positions of the list; the  *)
(* first part shows once that such a definition has a solution, and that   *)
(* what holds before the first position and is handed on holds at every    *)
(* position.                                                               *)
(***************************************************************************)
EXTENDS CommandLine, CartridgeHeader, VdpSprites, HeadlessRun, Integers, SequenceTheorems,
        FiniteSetTheorems, NaturalsInduction, WellFoundedInduction, TLAPS

(* A set of naturals has a least element. *)
LEMMA LeastOne ==
    ASSUME NEW T \in SUBSET Nat, T # {}
    PROVE  \E n \in T : \A k \in T : n <= k
<1> DEFINE R == {ss \in Nat \X Nat : ss[1] < ss[2]}
<1>1. IsWellFoundedOn(R, Nat)
  BY NatLessThanWellFounded DEF OpToRel
<1> HIDE DEF R
<1>2. PICK n \in T : \A k \in T : <<k, n>> \notin R
  BY <1>1, WFMin
<1>3. ASSUME NEW k \in T PROVE n <= k
  <2>1. k \in Nat /\ n \in Nat /\ <<k, n>> \notin R
    BY <1>2
  <2>2. ~(k < n)
    BY <2>1 DEF R
  <2> QED BY <2>1, <2>2
<1> QED BY <1>3

(* What holds at 0 and is handed on up to N holds up to N. *)
LEMMA UpTo ==
    ASSUME NEW N \in Nat, NEW T, 0 \in T, \A n \in 0 .. N - 1 : n \in T => n + 1 \in T
    PROVE  0 .. N \subseteq T
<1>1. SUFFICES ASSUME (0 .. N) \ T # {} PROVE FALSE
  OBVIOUS
<1>2. (0 .. N) \ T \in SUBSET Nat
  OBVIOUS
<1>3. PICK n \in (0 .. N) \ T : \A k \in (0 .. N) \ T : n <= k
  BY <1>1, <1>2, LeastOne
<1>4. n # 0 /\ n - 1 \in 0 .. N - 1 /\ n - 1 + 1 = n
  BY <1>3
<1>5. n - 1 \in T
  BY <1>3, <1>4
<1> QED BY <1>3, <1>4, <1>5

\* f is the recursive definition over 0 .. N that starts at base and goes on by F.
Solves(f, N, base, F) == f = [n \in 0 .. N |-> IF n = 0 THEN base ELSE F[<<n, f[n - 1]>>]]

(* A recursive definition over the positions of a list has a solution. *)
LEMMA Folding ==
    ASSUME NEW N \in Nat, NEW S, NEW base \in S, NEW F \in [(1 .. N) \X S -> S]
    PROVE  \E f \in [0 .. N -> S] : Solves(f, N, base, F)
<1> DEFINE Part(h, n) == /\ h \in [0 .. n -> S] /\ h[0] = base
                         /\ \A k \in 0 .. n - 1 : h[k + 1] = F[<<k + 1, h[k]>>]
           T == {n \in 0 .. N : \E h : Part(h, n)}
<1>1. 0 \in T
  <2>1. Part([k \in 0 .. 0 |-> base], 0)
    OBVIOUS
  <2>2. 0 \in 0 .. N
    OBVIOUS
  <2> HIDE DEF Part
  <2> QED BY <2>1, <2>2
<1>2. ASSUME NEW n \in 0 .. N - 1, n \in T PROVE n + 1 \in T
  <2>1. PICK h : Part(h, n)
    BY <1>2
  <2> DEFINE g == [k \in 0 .. n + 1 |-> IF k <= n THEN h[k] ELSE F[<<n + 1, h[n]>>]]
  <2>2. g \in [0 .. n + 1 -> S] /\ g[0] = base
    <3>1. \A k \in 0 .. n : h[k] \in S
      BY <2>1
    <3>2. F[<<n + 1, h[n]>>] \in S
      BY <3>1
    <3>3. \A k \in 0 .. n + 1 : g[k] \in S
      BY <3>1, <3>2
    <3> QED BY <2>1, <3>3
  <2>3. \A k \in 0 .. n + 1 - 1 : g[k + 1] = F[<<k + 1, g[k]>>]
    <3> TAKE k \in 0 .. n + 1 - 1
    <3>1. CASE k < n
      BY <2>1, <3>1
    <3>2. CASE k = n
      BY <3>2, SMTT(60)
    <3> QED BY <3>1, <3>2
  <2> HIDE DEF g
  <2>4. Part(g, n + 1)
    BY <2>2, <2>3
  <2>5. n + 1 \in 0 .. N
    OBVIOUS
  <2> HIDE DEF Part
  <2> QED BY <2>4, <2>5
<1> HIDE DEF T
<1>3. N \in T
  BY <1>1, <1>2, UpTo
<1>4. PICK f : Part(f, N)
  BY <1>3 DEF T
<1>5. \A n \in 0 .. N : f[n] = IF n = 0 THEN base ELSE F[<<n, f[n - 1]>>]
  <2> TAKE n \in 0 .. N
  <2>1. CASE n # 0
    <3>1. n - 1 \in 0 .. N - 1 /\ n - 1 + 1 = n
      BY <2>1
    <3> QED BY <1>4, <2>1, <3>1
  <2> QED BY <1>4, <2>1
<1>6. f = [n \in 0 .. N |-> IF n = 0 THEN base ELSE F[<<n, f[n - 1]>>]]
  BY <1>4, <1>5
<1> QED BY <1>4, <1>6 DEF Solves

\* How many of a set of positions are not after n.
CountTo(S, n) == Cardinality({i \in S : i <= n})

\* The elements of a set of positions, counted position by position.
LEMMA Counted ==
    ASSUME NEW N \in Nat, NEW S \in SUBSET (1 .. N)
    PROVE  /\ CountTo(S, 0) = 0
           /\ Cardinality(S) = CountTo(S, N)
           /\ \A n \in 0 .. N : CountTo(S, n) \in Nat
           /\ \A n \in 1 .. N : CountTo(S, n) = CountTo(S, n - 1) + (IF n \in S THEN 1 ELSE 0)
           /\ \A i, j \in 0 .. N : i <= j => CountTo(S, i) <= CountTo(S, j)
<1> DEFINE Upto(n) == {i \in S : i <= n}
<1>0. \A i \in S : i \in Nat /\ 1 <= i /\ i <= N
  OBVIOUS
<1>1. Upto(0) = {} /\ Upto(N) = S
  <2>1. \A i \in S : ~(i <= 0) /\ i <= N
    BY <1>0
  <2> QED BY <2>1
<1>2. \A n \in 0 .. N : IsFiniteSet(Upto(n)) /\ Cardinality(Upto(n)) \in Nat
  <2> TAKE n \in 0 .. N
  <2>1. IsFiniteSet(1 .. N)
    BY FS_Interval
  <2>2. Upto(n) \in SUBSET (1 .. N)
    OBVIOUS
  <2> HIDE DEF Upto
  <2> QED BY <2>1, <2>2, FS_Subset, FS_CardinalityType
<1>3. ASSUME NEW n \in 1 .. N
      PROVE  Cardinality(Upto(n)) = Cardinality(Upto(n - 1)) + (IF n \in S THEN 1 ELSE 0)
  <2>1. n - 1 \in 0 .. N /\ n \notin Upto(n - 1)
    OBVIOUS
  <2>2. Upto(n) = IF n \in S THEN Upto(n - 1) \cup {n} ELSE Upto(n - 1)
    <3>1. \A i \in S : i <= n <=> i <= n - 1 \/ i = n
      OBVIOUS
    <3> QED BY <3>1
  <2>3. IsFiniteSet(Upto(n - 1)) /\ Cardinality(Upto(n - 1)) \in Nat
    BY <1>2, <2>1
  <2> HIDE DEF Upto
  <2>4. Cardinality(Upto(n - 1) \cup {n}) = Cardinality(Upto(n - 1)) + 1
    BY <2>1, <2>3, FS_AddElement
  <2> QED BY <2>2, <2>3, <2>4
<1>4. ASSUME NEW i \in 0 .. N, NEW j \in 0 .. N, i <= j
      PROVE  Cardinality(Upto(i)) <= Cardinality(Upto(j))
  <2>1. Upto(i) \in SUBSET Upto(j)
    <3>1. \A k \in S : k <= i => k <= j
      BY <1>0, <1>4
    <3> QED BY <3>1
  <2> HIDE DEF Upto
  <2> QED BY <1>2, <2>1, FS_Subset
<1>5. \A n : CountTo(S, n) = Cardinality(Upto(n))
  BY DEF CountTo
<1> HIDE DEF Upto
<1>6. Cardinality({}) = 0
  BY FS_EmptySet
<1>7. \A n \in 1 .. N : CountTo(S, n) = CountTo(S, n - 1) + (IF n \in S THEN 1 ELSE 0)
  BY <1>3, <1>5
<1>8. \A i, j \in 0 .. N : i <= j => CountTo(S, i) <= CountTo(S, j)
  BY <1>4, <1>5
<1> QED BY <1>1, <1>2, <1>5, <1>6, <1>7, <1>8

-----------------------------------------------------------------------------
(***************************************************************************)
(* Command line.  Of every setting the options hold what the last argument *)
(* that mentions it said, a configuration file standing for its entries    *)
(* (Follows); the profile and the image's hint then go over them (Settled).*)
(***************************************************************************)
\* Everything an option may be set to.
FileWords == UNION {{config[i][2] : i \in DOMAIN config} : config \in Configs}
AnyWord == FileWords \cup Values \cup Models \cup {Unset, NoInput, "rom"}

OptionsType ==
    [settings : [Names -> AnyWord], run : SUBSET RunModes, input : AnyWord, header : BOOLEAN,
     model : AnyWord, model_explicit : BOOLEAN,
     enhancements : [mode : {"accurate", "enhanced"}, disable_sprite_limit : BOOLEAN]]

\* A configuration file is a list of entries, switches holding Booleans.
LEMMA ConfigIs ==
    ASSUME NEW config \in Configs
    PROVE  /\ Len(config) \in Nat /\ DOMAIN config = 1 .. Len(config)
           /\ \A i \in DOMAIN config :
                 /\ config[i][2] \in AnyWord
                 /\ config[i][1] = "disable_sprite_limit" => config[i][2] \in BOOLEAN
<1>1. config \in Seq({config[i] : i \in DOMAIN config})
  BY CommandAssumption DEF CommandAssumption
<1>2. \A i \in DOMAIN config : config[i][2] \in AnyWord
  <2> TAKE i \in DOMAIN config
  <2>1. config[i][2] \in {config[j][2] : j \in DOMAIN config}
    OBVIOUS
  <2>2. {config[j][2] : j \in DOMAIN config} \in {{c[j][2] : j \in DOMAIN c} : c \in Configs}
    OBVIOUS
  <2> QED BY <2>1, <2>2 DEF AnyWord, FileWords
<1>3. \A i \in DOMAIN config : config[i][1] = "disable_sprite_limit" => config[i][2] \in BOOLEAN
  BY CommandAssumption DEF CommandAssumption
<1> DEFINE S == {config[i] : i \in DOMAIN config}
<1> HIDE DEF S
<1>4. config \in Seq(S)
  BY <1>1 DEF S
<1> QED BY <1>2, <1>3, <1>4

\* An entry sets what it names and nothing else.
LEMMA AssignedTyped ==
    ASSUME NEW o \in OptionsType, NEW key \in ConfigKeys, NEW value \in AnyWord,
           key = "disable_sprite_limit" => value \in BOOLEAN
    PROVE  /\ Assigned(o, key, value) \in OptionsType
           /\ \A name \in Names : Assigned(o, key, value).settings[name] =
                                    IF name = key THEN value ELSE o.settings[name]
           /\ Assigned(o, key, value).model = IF key = "model" THEN value ELSE o.model
           /\ Assigned(o, key, value).model_explicit = (o.model_explicit \/ key = "model")
           /\ Assigned(o, key, value).enhancements =
                 IF key = "disable_sprite_limit" THEN Limited(o.enhancements, value) ELSE o.enhancements
<1> USE DEF OptionsType
<1> DEFINE r == Assigned(o, key, value)
<1>1. CASE key \in Names
  <2>1. r = [o EXCEPT !.settings[key] = value]
    BY <1>1 DEF Assigned, Names
  <2> QED BY <1>1, <2>1 DEF Names
<1>2. CASE key = "mode"
  <2>1. r = [o EXCEPT !.run = {value} \cap RunModes]
    BY <1>2 DEF Assigned, Names
  <2> QED BY <1>2, <2>1 DEF Names
<1>3. CASE key = "model"
  <2>1. r = [o EXCEPT !.model = value, !.model_explicit = TRUE]
    BY <1>3 DEF Assigned, Names
  <2> QED BY <1>3, <2>1 DEF Names
<1>4. CASE key = "input"
  <2>1. r = [o EXCEPT !.input = value]
    BY <1>4 DEF Assigned, Names
  <2> QED BY <1>4, <2>1 DEF Names
<1>5. CASE key = "disable_sprite_limit"
  <2>1. r = [o EXCEPT !.enhancements = Limited(o.enhancements, value)]
    BY <1>5 DEF Assigned, Names
  <2>2. Limited(o.enhancements, value) \in [mode : {"accurate", "enhanced"}, disable_sprite_limit : BOOLEAN]
    BY <1>5 DEF Limited
  <2> QED BY <1>5, <2>1, <2>2 DEF Names
<1> QED BY <1>1, <1>2, <1>3, <1>4, <1>5 DEF ConfigKeys

\* What an argument says of a name.
SaidBy(argument, name) ==
    IF argument[1] = "config"
    THEN {argument[2][j][2] : j \in {k \in DOMAIN argument[2] : argument[2][k][1] = name}}
    ELSE IF argument[1] = name THEN {argument[2]} ELSE {}

\* Says, the module's operator, in terms of the argument alone.
LEMMA SaysIs == \A i, name : Says(i, name) = SaidBy(arguments[i], name)
BY DEF Says, SaidBy

\* The options r hold what the argument says, and are as in o where it says
\* nothing; the mode is enhanced from the first enhancement switched on.
Takes(o, said, r) ==
    /\ \A name \in Names :
          \/ SaidBy(said, name) = {r.settings[name]}
          \/ SaidBy(said, name) = {} /\ r.settings[name] = o.settings[name]
    /\ \/ SaidBy(said, "model") = {r.model} /\ r.model_explicit
       \/ /\ SaidBy(said, "model") = {}
          /\ r.model = o.model /\ r.model_explicit = o.model_explicit
    /\ \/ /\ SaidBy(said, "disable_sprite_limit") = {r.enhancements.disable_sprite_limit}
          /\ r.enhancements = Limited(o.enhancements, r.enhancements.disable_sprite_limit)
       \/ /\ SaidBy(said, "disable_sprite_limit") = {}
          /\ r.enhancements = o.enhancements

\* The options after a file hold what the file says.
LEMMA FileApplied ==
    ASSUME NEW o \in OptionsType, NEW config \in Configs, Readable(config)
    PROVE  /\ apply_config_file(o, config) \in OptionsType
           /\ Takes(o, <<"config", config>>, apply_config_file(o, config))
<1> DEFINE N == Len(config)
           F == [x \in (1 .. N) \X OptionsType |-> Assigned(x[2], config[x[1]][1], config[x[1]][2])]
           Solution(f) == f = [n \in 0 .. N |-> IF n = 0 THEN o
                                        ELSE Assigned(f[n - 1], config[n][1], config[n][2])]
           A == CHOOSE f : Solution(f)
<1>1. /\ N \in Nat /\ DOMAIN config = 1 .. N
      /\ \A i \in 1 .. N : /\ config[i][2] \in AnyWord /\ config[i][1] \in ConfigKeys
                           /\ config[i][1] = "disable_sprite_limit" => config[i][2] \in BOOLEAN
      /\ \A i, j \in 1 .. N : config[i][1] = config[j][1] => i = j
  BY ConfigIs DEF Readable
<1> HIDE DEF N
<1>2. F \in [(1 .. N) \X OptionsType -> OptionsType]
  BY <1>1, AssignedTyped
<1>3. PICK f \in [0 .. N -> OptionsType] : Solves(f, N, o, F)
  <2> HIDE DEF F
  <2>1. N \in Nat /\ o \in OptionsType
    BY <1>1
  <2> QED BY ONLY <1>2, <2>1, Folding
<1>4. Solution(f)
  <2>1. \A n \in 0 .. N : n # 0 =>
          F[<<n, f[n - 1]>>] = Assigned(f[n - 1], config[n][1], config[n][2])
    <3> SUFFICES ASSUME NEW n \in 0 .. N, n # 0
                 PROVE  F[<<n, f[n - 1]>>] = Assigned(f[n - 1], config[n][1], config[n][2])
      OBVIOUS
    <3>1. n \in 1 .. N /\ n - 1 \in 0 .. N
      BY <1>1
    <3>2. <<n, f[n - 1]>> \in (1 .. N) \X OptionsType
      BY <1>3, <3>1
    <3> QED BY <3>2
  <2> HIDE DEF F
  <2> QED BY <1>3, <2>1 DEF Solves
<1>5. Solution(A)
  <2> HIDE DEF Solution
  <2> QED BY <1>4
<1>6. apply_config_file(o, config) = A[N]
  BY DEF apply_config_file, N
<1> HIDE DEF A, F
<1>7. A[0] = o /\ \A n \in 0 .. N - 1 : A[n + 1] = Assigned(A[n], config[n + 1][1], config[n + 1][2])
  <2>1. A[0] = o
    BY <1>1, <1>5
  <2>2. ASSUME NEW n \in 0 .. N - 1 PROVE A[n + 1] = Assigned(A[n], config[n + 1][1], config[n + 1][2])
    <3>1. n + 1 \in 0 .. N /\ n + 1 # 0 /\ n + 1 - 1 = n
      BY <1>1
    <3> DEFINE m == n + 1
    <3>2. m \in 0 .. N /\ m # 0 /\ m - 1 = n
      BY <3>1
    <3> HIDE DEF m
    <3>3. A[m] = Assigned(A[m - 1], config[m][1], config[m][2])
      BY <1>5, <3>2
    <3> QED BY <3>2, <3>3 DEF m
  <2> QED BY <2>1, <2>2
<1> HIDE DEF Solution
<1> DEFINE Right(n) ==
             /\ A[n] \in OptionsType
             /\ \A name \in Names :
                  /\ \A i \in 1 .. n : config[i][1] = name => A[n].settings[name] = config[i][2]
                  /\ (\A i \in 1 .. n : config[i][1] # name) => A[n].settings[name] = o.settings[name]
             /\ \A i \in 1 .. n : config[i][1] = "model" => A[n].model = config[i][2] /\ A[n].model_explicit
             /\ (\A i \in 1 .. n : config[i][1] # "model") =>
                  A[n].model = o.model /\ A[n].model_explicit = o.model_explicit
             /\ \A i \in 1 .. n : config[i][1] = "disable_sprite_limit" =>
                  A[n].enhancements = Limited(o.enhancements, config[i][2])
             /\ (\A i \in 1 .. n : config[i][1] # "disable_sprite_limit") =>
                  A[n].enhancements = o.enhancements
           T == {n \in 0 .. N : Right(n)}
<1>8. Right(0)
  BY <1>7
<1>9. ASSUME NEW n \in 0 .. N - 1, Right(n) PROVE Right(n + 1)
  <2> DEFINE key == config[n + 1][1]
             value == config[n + 1][2]
             p == A[n]
             q == A[n + 1]
  <2>1. n + 1 \in 1 .. N /\ n \in Nat
    BY <1>1
  <2>2. p \in OptionsType /\ key \in ConfigKeys /\ value \in AnyWord
        /\ (key = "disable_sprite_limit" => value \in BOOLEAN) /\ q = Assigned(p, key, value)
    BY <1>1, <1>7, <1>9, <2>1
  <2>3. /\ q \in OptionsType
        /\ \A name \in Names : q.settings[name] = IF name = key THEN value ELSE p.settings[name]
        /\ q.model = IF key = "model" THEN value ELSE p.model
        /\ q.model_explicit = (p.model_explicit \/ key = "model")
        /\ q.enhancements = IF key = "disable_sprite_limit" THEN Limited(p.enhancements, value)
                            ELSE p.enhancements
    <3> HIDE DEF key, value, p, q
    <3> QED BY ONLY <2>2, AssignedTyped
  <2>4. \A i \in 1 .. n + 1 : i = n + 1 \/ (i \in 1 .. n /\ config[i][1] # key)
    BY <1>1, <2>1
  <2>5. \A i \in 1 .. n : i \in 1 .. n + 1
    BY <2>1
  <2>6. n + 1 \in 1 .. n + 1
    BY <2>1
  <2>7. p.model_explicit \in BOOLEAN
    BY <2>2 DEF OptionsType
  <2> HIDE DEF q
  <2>8. \A name \in Names :
           /\ \A i \in 1 .. n + 1 : config[i][1] = name => q.settings[name] = config[i][2]
           /\ (\A i \in 1 .. n + 1 : config[i][1] # name) => q.settings[name] = o.settings[name]
    BY <1>9, <2>3, <2>4, <2>5, <2>6
  <2>9. \A i \in 1 .. n + 1 : config[i][1] = "model" => q.model = config[i][2] /\ q.model_explicit
    BY <1>9, <2>3, <2>4, <2>7, ZenonT(60)
  <2>10. (\A i \in 1 .. n + 1 : config[i][1] # "model") =>
           q.model = o.model /\ q.model_explicit = o.model_explicit
    BY <1>9, <2>3, <2>5, <2>6, <2>7
  <2>11. \A i \in 1 .. n + 1 : config[i][1] = "disable_sprite_limit" =>
            q.enhancements = Limited(o.enhancements, config[i][2])
    <3> TAKE i \in 1 .. n + 1
    <3> HAVE config[i][1] = "disable_sprite_limit"
    <3>1. CASE i = n + 1
      <4>1. \A j \in 1 .. n : config[j][1] # "disable_sprite_limit"
        BY <1>1, <2>1, <3>1
      <4>2. p.enhancements = o.enhancements
        BY <1>9, <4>1
      <4> QED BY <2>3, <3>1, <4>2
    <3>2. CASE i \in 1 .. n /\ config[i][1] # key
      BY <1>9, <2>3, <3>2
    <3> QED BY <2>4, <3>1, <3>2
  <2>12. (\A i \in 1 .. n + 1 : config[i][1] # "disable_sprite_limit") =>
            q.enhancements = o.enhancements
    BY <1>9, <2>3, <2>5, <2>6
  <2> QED BY <2>3, <2>8, <2>9, <2>10, <2>11, <2>12 DEF q
<1> HIDE DEF Right
<1>10. Right(N)
  <2>1. 0 \in T
    BY <1>1, <1>8
  <2>2. \A n \in 0 .. N - 1 : n \in T => n + 1 \in T
    BY <1>1, <1>9
  <2> HIDE DEF T
  <2>3. 0 .. N \subseteq T
    BY ONLY <1>1, <2>1, <2>2, UpTo
  <2> QED BY <1>1, <2>3 DEF T
<1> DEFINE r == A[N]
<1>11. \A name : SaidBy(<<"config", config>>, name) = {config[i][2] : i \in {k \in 1 .. N : config[k][1] = name}}
  BY <1>1 DEF SaidBy
<1>12. \A name : \/ \A i \in 1 .. N : config[i][1] # name
                 \/ \E i \in 1 .. N : config[i][1] = name /\ {k \in 1 .. N : config[k][1] = name} = {i}
  BY <1>1
<1>13. \A name : \/ (\A i \in 1 .. N : config[i][1] # name) /\ SaidBy(<<"config", config>>, name) = {}
                 \/ \E i \in 1 .. N : config[i][1] = name /\ SaidBy(<<"config", config>>, name) = {config[i][2]}
  <2> TAKE name
  <2>1. CASE \A i \in 1 .. N : config[i][1] # name
    BY <1>11, <2>1
  <2>2. CASE \E i \in 1 .. N : config[i][1] = name /\ {k \in 1 .. N : config[k][1] = name} = {i}
    <3>1. PICK i \in 1 .. N : config[i][1] = name /\ {k \in 1 .. N : config[k][1] = name} = {i}
      BY <2>2
    <3>2. SaidBy(<<"config", config>>, name) = {config[k][2] : k \in {i}}
      BY <1>11, <3>1
    <3> QED BY <3>1, <3>2
  <2> QED BY <1>12, <2>1, <2>2
<1>14. r.enhancements.disable_sprite_limit \in BOOLEAN /\ r \in OptionsType
  BY <1>10 DEF Right, OptionsType
<1>15. \A name \in Names :
         \/ SaidBy(<<"config", config>>, name) = {r.settings[name]}
         \/ SaidBy(<<"config", config>>, name) = {} /\ r.settings[name] = o.settings[name]
  BY <1>10, <1>13 DEF Right
<1>16. \/ SaidBy(<<"config", config>>, "model") = {r.model} /\ r.model_explicit
       \/ /\ SaidBy(<<"config", config>>, "model") = {}
          /\ r.model = o.model /\ r.model_explicit = o.model_explicit
  BY <1>10, <1>13 DEF Right
<1>17. \/ /\ SaidBy(<<"config", config>>, "disable_sprite_limit") = {r.enhancements.disable_sprite_limit}
          /\ r.enhancements = Limited(o.enhancements, r.enhancements.disable_sprite_limit)
       \/ /\ SaidBy(<<"config", config>>, "disable_sprite_limit") = {}
          /\ r.enhancements = o.enhancements
  <2>1. CASE /\ \A i \in 1 .. N : config[i][1] # "disable_sprite_limit"
             /\ SaidBy(<<"config", config>>, "disable_sprite_limit") = {}
    BY <1>10, <2>1 DEF Right
  <2>2. CASE \E i \in 1 .. N :
                 /\ config[i][1] = "disable_sprite_limit"
                 /\ SaidBy(<<"config", config>>, "disable_sprite_limit") = {config[i][2]}
    <3>1. PICK i \in 1 .. N :
              /\ config[i][1] = "disable_sprite_limit"
              /\ SaidBy(<<"config", config>>, "disable_sprite_limit") = {config[i][2]}
      BY <2>2
    <3>2. r.enhancements = Limited(o.enhancements, config[i][2])
      BY <1>10, <3>1 DEF Right
    <3>3. r.enhancements.disable_sprite_limit = config[i][2]
      BY <3>2 DEF Limited
    <3> QED BY <3>1, <3>2, <3>3
  <2> QED BY <1>13, <2>1, <2>2
<1> HIDE DEF r
<1>18. Takes(o, <<"config", config>>, r)
  BY <1>15, <1>16, <1>17 DEF Takes
<1> QED BY <1>6, <1>14, <1>18 DEF r

\* What an argument may be.
Phrases ==
    ({"config"} \X Configs) \cup (Names \X Values) \cup ({"model"} \X Models) \cup ({"mode"} \X RunModes)
    \cup {<<"disable_sprite_limit", TRUE>>, <<"header", TRUE>>, <<"input", "rom">>}

\* The value a name has after n arguments is that of the last that says anything of it.
Mention(args, name) == {i \in DOMAIN args : SaidBy(args[i], name) # {}}
Lasts(args, name, value) ==
    \E i \in Mention(args, name) :
        SaidBy(args[i], name) = {value} /\ \A j \in Mention(args, name) : j <= i

\* An enhancement was switched on by one of the arguments.
On(args) == \E i \in DOMAIN args : TRUE \in SaidBy(args[i], "disable_sprite_limit")

\* The enhancements are those said last, in the mode they ever asked for.
Enhances(o, args) ==
    /\ \/ /\ Mention(args, "disable_sprite_limit") = {}
          /\ o.enhancements.disable_sprite_limit = FALSE
       \/ Lasts(args, "disable_sprite_limit", o.enhancements.disable_sprite_limit)
    /\ o.enhancements.mode = IF On(args) THEN "enhanced" ELSE "accurate"

Follows(o, args) ==
    /\ \A name \in Names :
          \/ Mention(args, name) = {} /\ o.settings[name] = Unset
          \/ Lasts(args, name, o.settings[name])
    /\ \/ Mention(args, "model") = {} /\ o.model = "sms" /\ ~o.model_explicit
       \/ Lasts(args, "model", o.model) /\ o.model_explicit
    /\ Enhances(o, args)

Parsed == opts \in OptionsType /\ arguments \in Seq(Phrases) /\ Follows(opts, arguments)

\* What Main makes of them.
Settled(o, args, profile, hint) ==
    /\ \A name \in Names :
          IF name \in DOMAIN profile THEN o.settings[name] = profile[name]
          ELSE \/ Mention(args, name) = {} /\ o.settings[name] = Unset
               \/ Lasts(args, name, o.settings[name])
    /\ IF "model" \in DOMAIN profile THEN o.model = profile.model
       ELSE \/ Mention(args, "model") = {} /\ o.model = (IF hint = NoHint THEN "sms" ELSE hint)
            \/ Lasts(args, "model", o.model)
    /\ IF "enhancements" \in DOMAIN profile THEN o.enhancements = profile.enhancements
       ELSE Enhances(o, args)

MainDone ==
    \E args \in Seq(Phrases), profile \in Profiles, hint \in Models \cup {NoHint} :
        arguments = Append(args, <<"profile", profile, hint>>) /\ Settled(opts, args, profile, hint)

CommandInv == (stage \in {"parse", "main"} => Parsed) /\ (Done => MainDone)

\* Before the first argument every setting is at its default.
LEMMA CommandStarts == CommandInit => CommandInv
<1> SUFFICES ASSUME CommandInit PROVE CommandInv
  OBVIOUS
<1>1. opts = DefaultOptions /\ arguments = << >> /\ stage = "parse"
  BY DEF CommandInit
<1>2. opts \in OptionsType
  <2>1. Unset \in AnyWord /\ NoInput \in AnyWord /\ "sms" \in AnyWord
    <3>1. "sms" \in Models
      BY DEF Models
    <3> QED BY <3>1 DEF AnyWord
  <2>2. [name \in Names |-> Unset] \in [Names -> AnyWord]
    BY <2>1
  <2> QED BY <1>1, <2>1, <2>2 DEF DefaultOptions, OptionsType
<1>3. (\A name : Mention(arguments, name) = {}) /\ ~On(arguments)
  BY <1>1 DEF Mention, On
<1>4. Follows(opts, arguments)
  BY <1>1, <1>3 DEF Follows, Enhances, DefaultOptions
<1> QED BY <1>1, <1>2, <1>4 DEF CommandInv, Parsed, Done

\* A new argument's word is the last.
LEMMA SaysMore ==
    ASSUME NEW args \in Seq(Phrases), NEW said \in Phrases, NEW name, NEW old, NEW new
    PROVE  LET more == Append(args, said) IN
           /\ SaidBy(said, name) = {new} => Lasts(more, name, new)
           /\ SaidBy(said, name) = {} =>
                /\ Lasts(args, name, old) => Lasts(more, name, old)
                /\ Mention(args, name) = {} => Mention(more, name) = {}
           /\ On(more) <=> On(args) \/ TRUE \in SaidBy(said, "disable_sprite_limit")
<1> DEFINE more == Append(args, said)
           n == Len(args)
<1>1. /\ n \in Nat /\ DOMAIN args = 1 .. n /\ DOMAIN more = 1 .. n + 1
      /\ \A i \in 1 .. n : more[i] = args[i]
      /\ more[n + 1] = said
  OBVIOUS
<1> HIDE DEF more, n
<1>2. ASSUME SaidBy(said, name) = {new} PROVE Lasts(more, name, new)
  <2>1. n + 1 \in Mention(more, name)
    BY <1>1, <1>2 DEF Mention
  <2>2. \A j \in Mention(more, name) : j <= n + 1
    BY <1>1 DEF Mention
  <2> QED BY <1>1, <1>2, <2>1, <2>2 DEF Lasts
<1>3. ASSUME SaidBy(said, name) = {} PROVE Mention(more, name) = Mention(args, name)
  <2>1. \A i \in 1 .. n + 1 : i \in 1 .. n \/ i = n + 1
    BY <1>1
  <2>2. \A i \in 1 .. n : i \in 1 .. n + 1
    BY <1>1
  <2> QED BY <1>1, <1>3, <2>1, <2>2 DEF Mention
<1>4. \A i \in Mention(args, name) : more[i] = args[i]
  BY <1>1 DEF Mention
<1>5. ASSUME SaidBy(said, name) = {}, Lasts(args, name, old) PROVE Lasts(more, name, old)
  BY <1>3, <1>4, <1>5 DEF Lasts
<1>6. On(more) <=> On(args) \/ TRUE \in SaidBy(said, "disable_sprite_limit")
  <2>1. \A i \in 1 .. n + 1 : i \in 1 .. n \/ i = n + 1
    BY <1>1
  <2>2. (\A i \in 1 .. n : i \in 1 .. n + 1) /\ n + 1 \in 1 .. n + 1
    BY <1>1
  <2> QED BY <1>1, <2>1, <2>2 DEF On
<1> QED BY <1>2, <1>3, <1>5, <1>6 DEF more

\* An argument changes the options as it says.
LEMMA Adds ==
    ASSUME NEW args \in Seq(Phrases), NEW said \in Phrases, NEW o \in OptionsType, NEW r \in OptionsType,
           Follows(o, args), Takes(o, said, r)
    PROVE  Follows(r, Append(args, said))
<1> DEFINE more == Append(args, said)
<1>1. \A name, new : SaidBy(said, name) = {new} => Lasts(more, name, new)
  BY SaysMore
<1>2. \A name, old : SaidBy(said, name) = {} /\ Lasts(args, name, old) => Lasts(more, name, old)
  BY SaysMore
<1>3. \A name : SaidBy(said, name) = {} /\ Mention(args, name) = {} => Mention(more, name) = {}
  BY SaysMore
<1> HIDE DEF more
<1>4. \A name \in Names : \/ Mention(more, name) = {} /\ r.settings[name] = Unset
                          \/ Lasts(more, name, r.settings[name])
  BY <1>1, <1>2, <1>3 DEF Follows, Takes
<1>5. \/ Mention(more, "model") = {} /\ r.model = "sms" /\ ~r.model_explicit
      \/ Lasts(more, "model", r.model) /\ r.model_explicit
  BY <1>1, <1>2, <1>3 DEF Follows, Takes
<1>6. On(more) <=> On(args) \/ TRUE \in SaidBy(said, "disable_sprite_limit")
  BY SaysMore DEF more
<1>7. \/ /\ Mention(more, "disable_sprite_limit") = {}
         /\ r.enhancements.disable_sprite_limit = FALSE
      \/ Lasts(more, "disable_sprite_limit", r.enhancements.disable_sprite_limit)
  BY <1>1, <1>2, <1>3 DEF Follows, Takes, Enhances
<1>8. r.enhancements.mode = IF On(more) THEN "enhanced" ELSE "accurate"
  <2>1. o.enhancements.mode = IF On(args) THEN "enhanced" ELSE "accurate"
    BY DEF Follows, Enhances
  <2>2. r.enhancements.disable_sprite_limit \in BOOLEAN
    BY DEF OptionsType
  <2>3. CASE /\ SaidBy(said, "disable_sprite_limit") = {r.enhancements.disable_sprite_limit}
             /\ r.enhancements = Limited(o.enhancements, r.enhancements.disable_sprite_limit)
    <3>1. r.enhancements.mode = IF r.enhancements.disable_sprite_limit THEN "enhanced"
                                ELSE o.enhancements.mode
      BY <2>3 DEF Limited
    <3> QED BY <1>6, <2>1, <2>2, <2>3, <3>1
  <2>4. CASE SaidBy(said, "disable_sprite_limit") = {} /\ r.enhancements = o.enhancements
    BY <1>6, <2>1, <2>4
  <2> QED BY <2>3, <2>4 DEF Takes
<1>9. Enhances(r, more)
  BY <1>7, <1>8 DEF Enhances
<1> QED BY <1>4, <1>5, <1>9 DEF Follows, more

\* An argument whose effect is what it says keeps the options up to date.
LEMMA ArgumentStep ==
    ASSUME Parsed, stage = "parse", NEW said \in Phrases, NEW new \in OptionsType, Argument(said, new),
           Takes(opts, said, new)
    PROVE  CommandInv'
<1>1. opts' = new /\ arguments' = Append(arguments, said) /\ stage' = "parse"
  BY DEF Argument
<1>2. opts \in OptionsType /\ arguments \in Seq(Phrases) /\ Follows(opts, arguments)
  BY DEF Parsed
<1>3. Follows(new, Append(arguments, said))
  BY <1>2, Adds
<1>4. Append(arguments, said) \in Seq(Phrases)
  BY <1>2
<1>5. Parsed'
  <2>1. Follows(opts', arguments')
    BY <1>1, <1>3
  <2>2. opts' \in OptionsType /\ arguments' \in Seq(Phrases)
    BY <1>1, <1>4
  <2> QED BY ONLY <2>1, <2>2 DEF Parsed
<1> QED BY <1>1, <1>5 DEF CommandInv, Done

\* A command line that is refused runs nothing.
LEMMA FailsStep == CommandInv /\ Fails => CommandInv'
BY DEF CommandInv, Fails, Done, MainDone

(* Every step of the command line keeps what it has followed so far. *)
LEMMA ConfigStep == CommandInv /\ ConfigArgument => CommandInv'
<1> SUFFICES ASSUME CommandInv, ConfigArgument PROVE CommandInv'
  OBVIOUS
<1>1. PICK config \in Configs :
        IF Readable(config)
        THEN Argument(<<"config", config>>, apply_config_file(opts, config))
        ELSE Fails
  BY DEF ConfigArgument
<1>2. CASE ~Readable(config)
  BY <1>1, <1>2, FailsStep
<1>3. CASE Readable(config)
  <2> DEFINE new == apply_config_file(opts, config)
             said == <<"config", config>>
  <2>1. Argument(said, new)
    BY <1>1, <1>3
  <2>2. stage = "parse" /\ Parsed /\ opts \in OptionsType
    BY <2>1 DEF Argument, CommandInv, Parsed
  <2>3. new \in OptionsType /\ Takes(opts, said, new)
    BY <1>3, <2>2, FileApplied
  <2>4. said \in Phrases
    BY DEF Phrases
  <2> HIDE DEF new, said
  <2> QED BY <2>1, <2>2, <2>3, <2>4, ArgumentStep
<1> QED BY <1>2, <1>3

\* An option sets the name it is for.
LEMMA OptionStep == CommandInv /\ OptionArgument => CommandInv'
<1> SUFFICES ASSUME CommandInv, OptionArgument PROVE CommandInv'
  OBVIOUS
<1>0. stage = "parse" /\ Parsed /\ opts \in OptionsType
  BY DEF OptionArgument, Argument, CommandInv, Parsed
<1>1. ASSUME NEW name \in Names, NEW value \in Values,
             Argument(<<name, value>>, [opts EXCEPT !.settings[name] = value])
      PROVE  CommandInv'
  <2> DEFINE new == [opts EXCEPT !.settings[name] = value]
             said == <<name, value>>
  <2>1. new \in OptionsType /\ said \in Phrases
    BY <1>0 DEF OptionsType, AnyWord, Phrases
  <2>2. said[1] = name /\ said[2] = value /\ name # "config" /\ name # "model"
    BY DEF Names
  <2>3. \A n \in Names : \/ SaidBy(said, n) = {new.settings[n]}
                         \/ SaidBy(said, n) = {} /\ new.settings[n] = opts.settings[n]
    BY <1>0, <2>2 DEF SaidBy, OptionsType
  <2>4. SaidBy(said, "model") = {} /\ new.model = opts.model /\ new.model_explicit = opts.model_explicit
    BY <1>0, <2>2 DEF SaidBy, OptionsType
  <2>5. SaidBy(said, "disable_sprite_limit") = {} /\ new.enhancements = opts.enhancements
    BY <1>0, <2>2 DEF SaidBy, OptionsType, Names
  <2>6. Argument(said, new)
    BY <1>1
  <2> HIDE DEF new, said
  <2>7. Takes(opts, said, new)
    BY <2>3, <2>4, <2>5 DEF Takes
  <2> QED BY <1>0, <2>1, <2>6, <2>7, ArgumentStep
<1>2. ASSUME NEW model \in Models,
             Argument(<<"model", model>>, [opts EXCEPT !.model = model, !.model_explicit = TRUE])
      PROVE  CommandInv'
  <2> DEFINE new == [opts EXCEPT !.model = model, !.model_explicit = TRUE]
             said == <<"model", model>>
  <2>1. new \in OptionsType /\ said \in Phrases
    BY <1>0 DEF OptionsType, AnyWord, Phrases
  <2>3. \A n \in Names : SaidBy(said, n) = {} /\ new.settings[n] = opts.settings[n]
    BY <1>0 DEF SaidBy, OptionsType, Names
  <2>4. SaidBy(said, "model") = {new.model} /\ new.model_explicit
    BY <1>0 DEF SaidBy, OptionsType
  <2>5. SaidBy(said, "disable_sprite_limit") = {} /\ new.enhancements = opts.enhancements
    BY <1>0 DEF SaidBy, OptionsType
  <2>6. Argument(said, new)
    BY <1>2
  <2> HIDE DEF new, said
  <2>7. Takes(opts, said, new)
    BY <2>3, <2>4, <2>5 DEF Takes
  <2> QED BY <1>0, <2>1, <2>6, <2>7, ArgumentStep
<1> QED BY <1>1, <1>2 DEF OptionArgument

\* An argument that says nothing of a name or of the model.
LEMMA QuietStep ==
    ASSUME CommandInv, NEW said \in Phrases, NEW new \in OptionsType, Argument(said, new),
           said[1] \in {"mode", "disable_sprite_limit", "header", "input"},
           new.settings = opts.settings, new.model = opts.model, new.model_explicit = opts.model_explicit,
           \/ said[1] # "disable_sprite_limit" /\ new.enhancements = opts.enhancements
           \/ /\ said = <<"disable_sprite_limit", TRUE>>
              /\ new.enhancements = Limited(opts.enhancements, TRUE)
    PROVE  CommandInv'
<1>1. stage = "parse" /\ Parsed
  BY DEF Argument, CommandInv
<1>2. \A name \in Names \cup {"model"} : SaidBy(said, name) = {}
  BY DEF SaidBy, Names
<1>3. \/ /\ SaidBy(said, "disable_sprite_limit") = {new.enhancements.disable_sprite_limit}
         /\ new.enhancements = Limited(opts.enhancements, new.enhancements.disable_sprite_limit)
      \/ SaidBy(said, "disable_sprite_limit") = {} /\ new.enhancements = opts.enhancements
  <2>1. CASE said[1] # "disable_sprite_limit" /\ new.enhancements = opts.enhancements
    <3>1. SaidBy(said, "disable_sprite_limit") = {}
      BY <2>1 DEF SaidBy
    <3> QED BY <2>1, <3>1
  <2>2. CASE said = <<"disable_sprite_limit", TRUE>> /\ new.enhancements = Limited(opts.enhancements, TRUE)
    <3>1. SaidBy(said, "disable_sprite_limit") = {TRUE}
      BY <2>2 DEF SaidBy
    <3>2. new.enhancements.disable_sprite_limit = TRUE
      BY <2>2 DEF Limited
    <3> QED BY <2>2, <3>1, <3>2
  <2> QED BY <2>1, <2>2
<1>4. Takes(opts, said, new)
  BY <1>2, <1>3 DEF Takes
<1> QED BY <1>1, <1>4, ArgumentStep

\* The arguments that set no setting, and the end of them.
LEMMA OtherSteps == CommandInv /\ (FlagArgument \/ HeaderArgument \/ ImageArgument) => CommandInv'
<1> SUFFICES ASSUME CommandInv, FlagArgument \/ HeaderArgument \/ ImageArgument PROVE CommandInv'
  OBVIOUS
<1>1. ASSUME stage = "parse" PROVE opts \in OptionsType
  BY <1>1 DEF CommandInv, Parsed
<1>2. ASSUME NEW mode \in RunModes, Argument(<<"mode", mode>>, [opts EXCEPT !.run = @ \cup {mode}])
      PROVE  CommandInv'
  <2> DEFINE new == [opts EXCEPT !.run = @ \cup {mode}]
             said == <<"mode", mode>>
  <2>1. new \in OptionsType /\ said \in Phrases /\ Argument(said, new)
    BY <1>1, <1>2 DEF OptionsType, Phrases, Argument
  <2>2. new.settings = opts.settings /\ new.model = opts.model /\ new.model_explicit = opts.model_explicit
        /\ new.enhancements = opts.enhancements
    BY <1>1, <1>2 DEF OptionsType, Argument
  <2>3. said[1] = "mode"
    OBVIOUS
  <2> HIDE DEF new, said
  <2> QED BY <2>1, <2>2, <2>3, QuietStep
<1>3. ASSUME Argument(<<"disable_sprite_limit", TRUE>>,
                      [opts EXCEPT !.enhancements = Limited(@, TRUE)])
      PROVE  CommandInv'
  <2> DEFINE new == [opts EXCEPT !.enhancements = Limited(@, TRUE)]
             said == <<"disable_sprite_limit", TRUE>>
  <2>1. new \in OptionsType /\ said \in Phrases /\ Argument(said, new)
    BY <1>1, <1>3 DEF OptionsType, Phrases, Argument, Limited
  <2>2. new.settings = opts.settings /\ new.model = opts.model /\ new.model_explicit = opts.model_explicit
        /\ new.enhancements = Limited(opts.enhancements, TRUE)
    BY <1>1, <1>3 DEF OptionsType, Argument
  <2>3. said = <<"disable_sprite_limit", TRUE>> /\ said[1] = "disable_sprite_limit"
    OBVIOUS
  <2> HIDE DEF new, said
  <2> QED BY <2>1, <2>2, <2>3, QuietStep
<1>4. ASSUME Argument(<<"header", TRUE>>, [opts EXCEPT !.header = TRUE])
      PROVE  CommandInv'
  <2> DEFINE new == [opts EXCEPT !.header = TRUE]
             said == <<"header", TRUE>>
  <2>1. new \in OptionsType /\ said \in Phrases /\ Argument(said, new)
    BY <1>1, <1>4 DEF OptionsType, Phrases, Argument
  <2>2. new.settings = opts.settings /\ new.model = opts.model /\ new.model_explicit = opts.model_explicit
        /\ new.enhancements = opts.enhancements
    BY <1>1, <1>4 DEF OptionsType, Argument
  <2>3. said[1] = "header"
    OBVIOUS
  <2> HIDE DEF new, said
  <2> QED BY <2>1, <2>2, <2>3, QuietStep
<1>5. ASSUME Argument(<<"input", "rom">>, [opts EXCEPT !.input = "rom"])
      PROVE  CommandInv'
  <2> DEFINE new == [opts EXCEPT !.input = "rom"]
             said == <<"input", "rom">>
  <2>1. new \in OptionsType /\ said \in Phrases /\ Argument(said, new)
    BY <1>1, <1>5 DEF OptionsType, Phrases, Argument, AnyWord
  <2>2. new.settings = opts.settings /\ new.model = opts.model /\ new.model_explicit = opts.model_explicit
        /\ new.enhancements = opts.enhancements
    BY <1>1, <1>5 DEF OptionsType, Argument
  <2>3. said[1] = "input"
    OBVIOUS
  <2> HIDE DEF new, said
  <2> QED BY <2>1, <2>2, <2>3, QuietStep
<1> QED BY <1>2, <1>3, <1>4, <1>5, FailsStep DEF FlagArgument, HeaderArgument, ImageArgument

\* Before Main lays the profile over them, the arguments are those of parse_args.
LEMMA Before ==
    ASSUME NEW args \in Seq(Phrases), NEW laid, arguments = Append(args, laid)
    PROVE  /\ Len(args) \in Nat /\ DOMAIN args = 1 .. Len(args) /\ Len(arguments) - 1 = Len(args)
           /\ \A i \in 1 .. Len(args) : arguments[i] = args[i]
<1>1. args \in Seq(Phrases \cup {laid})
  OBVIOUS
<1>2. Len(args) \in Nat /\ DOMAIN args = 1 .. Len(args)
  OBVIOUS
<1>3. Len(arguments) = Len(args) + 1
  BY <1>1
<1>4. \A i \in 1 .. Len(args) : arguments[i] = args[i]
  BY <1>1
<1> QED BY <1>2, <1>3, <1>4

\* An enhancement was ever switched on if one argument did.
LEMMA EverIs ==
    ASSUME NEW args \in Seq(Phrases), NEW laid, arguments = Append(args, laid)
    PROVE  TRUE \in Ever("disable_sprite_limit") <=> On(args)
<1>1. \A i \in 1 .. Len(args) :
        Says(i, "disable_sprite_limit") = SaidBy(args[i], "disable_sprite_limit")
  BY Before, SaysIs
<1> QED BY <1>1, Before DEF Ever, On

\* The last word on a name is what LatestWord finds.
LEMMA LatestIs ==
    ASSUME NEW value, NEW name, NEW default, NEW args \in Seq(Phrases), NEW laid, arguments = Append(args, laid)
    PROVE  /\ Mention(args, name) = {} => LatestWord(name, default) = default
           /\ Lasts(args, name, value) => LatestWord(name, default) = value
<1> DEFINE n == Len(args)
<1>1. /\ n \in Nat /\ DOMAIN args = 1 .. n /\ Len(arguments) - 1 = n
      /\ \A i \in 1 .. n : arguments[i] = args[i]
  BY Before
<1> HIDE DEF n
<1>2. \A i \in 1 .. n : Says(i, name) = SaidBy(args[i], name)
  BY <1>1, SaysIs
<1>3. Mentions(name) = Mention(args, name)
  BY <1>1, <1>2 DEF Mentions, Mention
<1>4. ASSUME Lasts(args, name, value) PROVE LatestWord(name, default) = value
  <2>1. PICK i \in Mention(args, name) :
          SaidBy(args[i], name) = {value} /\ \A j \in Mention(args, name) : j <= i
    BY <1>4 DEF Lasts
  <2> DEFINE last == CHOOSE k \in Mentions(name) : \A j \in Mentions(name) : j <= k
  <2>2. last \in Mentions(name) /\ \A j \in Mentions(name) : j <= last
    BY <1>3, <2>1
  <2>3. last = i
    <3>1. \A k \in Mention(args, name) : k \in Nat
      BY <1>1 DEF Mention
    <3>2. last \in Nat /\ i \in Nat /\ last <= i /\ i <= last
      BY <1>3, <2>1, <2>2, <3>1
    <3> HIDE DEF last
    <3> QED BY <3>2
  <2>4. Says(last, name) = {value}
    BY <1>1, <1>2, <2>1, <2>3 DEF Mention
  <2>5. LatestWord(name, default) = CHOOSE v \in Says(last, name) : TRUE
    BY <1>3, <2>1 DEF LatestWord
  <2> QED BY <2>4, <2>5
<1>5. ASSUME Mention(args, name) = {} PROVE LatestWord(name, default) = default
  BY <1>3, <1>5 DEF LatestWord
<1> QED BY <1>4, <1>5

\* The profile goes over what was said, and what nobody said is inferred.
LEMMA MainStep ==
    ASSUME CommandInv, NEW profile \in Profiles, NEW hint \in Models \cup {NoHint}, Main(profile, hint)
    PROVE  CommandInv'
<1> DEFINE profiled == IF opts.header THEN opts ELSE apply_game_profile(profile)
           laid == <<"profile", profile, hint>>
           p == apply_game_profile(profile)
<1>1. /\ Parsed /\ stage' = Dispatch(opts) /\ arguments' = Append(arguments, laid)
      /\ opts' = IF opts.header \/ profiled.model_explicit \/ hint = NoHint
                 THEN profiled ELSE [profiled EXCEPT !.model = hint]
  BY DEF Main, CommandInv
<1>2. opts \in OptionsType /\ arguments \in Seq(Phrases) /\ Follows(opts, arguments)
  BY <1>1 DEF Parsed
<1>3. stage' \notin {"parse", "main"} /\ (Done' => ~opts.header)
  BY <1>1 DEF Dispatch, Done
<1>4. CASE opts.header
  BY <1>3, <1>4 DEF CommandInv
<1>5. CASE ~opts.header
  <2>1. /\ p.settings = [name \in Names |-> IF name \in DOMAIN profile THEN profile[name] ELSE opts.settings[name]]
        /\ p.model = IF "model" \in DOMAIN profile THEN profile.model ELSE opts.model
        /\ p.model_explicit = (opts.model_explicit \/ "model" \in DOMAIN profile)
        /\ p.enhancements = IF "enhancements" \in DOMAIN profile THEN profile.enhancements
                            ELSE opts.enhancements
        /\ \A m : LET q == [p EXCEPT !.model = m]
                  IN  q.settings = p.settings /\ q.model = m /\ q.enhancements = p.enhancements
    BY <1>2 DEF apply_game_profile, OptionsType
  <2> HIDE DEF p
  <2>2. opts' = IF p.model_explicit \/ hint = NoHint THEN p ELSE [p EXCEPT !.model = hint]
    BY <1>1, <1>5 DEF p
  <2>3. /\ opts'.settings = p.settings
        /\ opts'.model = IF p.model_explicit \/ hint = NoHint THEN p.model ELSE hint
        /\ opts'.enhancements = p.enhancements
    BY <2>1, <2>2
  <2>4. Settled(opts', arguments, profile, hint)
    <3>1. IF "enhancements" \in DOMAIN profile THEN opts'.enhancements = profile.enhancements
          ELSE Enhances(opts', arguments)
      BY <1>2, <2>1, <2>3 DEF Follows, Enhances
    <3> QED BY <1>2, <2>1, <2>3, <3>1, ZenonT(60) DEF Settled, Follows
  <2>5. MainDone'
    BY <1>1, <1>2, <2>4 DEF MainDone
  <2> QED BY <1>3, <2>5 DEF CommandInv
<1> QED BY <1>4, <1>5

\* Every step of the command line.
LEMMA CommandStep == CommandInv /\ [CommandNext]_commandVars => CommandInv'
<1> SUFFICES ASSUME CommandInv, [CommandNext]_commandVars PROVE CommandInv'
  OBVIOUS
<1>1. CASE EndOfArguments
  BY <1>1 DEF EndOfArguments, CommandInv, Parsed, Done
<1>2. CASE UNCHANGED commandVars
  BY <1>2 DEF commandVars, CommandInv, Parsed, Done, MainDone
<1> QED BY <1>1, <1>2, ConfigStep, OptionStep, OtherSteps, MainStep DEF CommandNext

\* What is settled is what the property states of the last mention.
LEMMA SettledInOrder == CommandInv => SettingsInOrder
<1> SUFFICES ASSUME CommandInv, Done PROVE SettingsInOrder
  BY DEF SettingsInOrder
<1>1. PICK args \in Seq(Phrases), profile \in Profiles, hint \in Models \cup {NoHint} :
        arguments = Append(args, <<"profile", profile, hint>>) /\ Settled(opts, args, profile, hint)
  BY DEF CommandInv, MainDone
<1> DEFINE laid == <<"profile", profile, hint>>
<1>2. Laid = laid
  <2>1. args \in Seq(Phrases \cup {laid})
    OBVIOUS
  <2> HIDE DEF laid
  <2>2. Append(args, laid)[Len(Append(args, laid))] = laid
    BY <2>1
  <2> QED BY <1>1, <2>2 DEF Laid, laid
<1>3. laid[2] = profile /\ laid[3] = hint
  OBVIOUS
<1>4. arguments = Append(args, laid)
  BY <1>1
<1> HIDE DEF laid
<1>5. \A name, value, default :
        /\ Mention(args, name) = {} => LatestWord(name, default) = default
        /\ Lasts(args, name, value) => LatestWord(name, default) = value
  BY <1>4, LatestIs
<1>6. \A name \in Names :
        opts.settings[name] = IF name \in DOMAIN profile THEN profile[name] ELSE LatestWord(name, Unset)
  BY <1>1, <1>5 DEF Settled
<1>7. opts.model = IF "model" \in DOMAIN profile THEN profile.model
                   ELSE LatestWord("model", IF hint = NoHint THEN "sms" ELSE hint)
  BY <1>1, <1>5 DEF Settled
<1>8. IF "enhancements" \in DOMAIN profile THEN opts.enhancements = profile.enhancements
      ELSE /\ opts.enhancements.disable_sprite_limit = LatestWord("disable_sprite_limit", FALSE)
           /\ opts.enhancements.mode = IF On(args) THEN "enhanced" ELSE "accurate"
  BY <1>1, <1>5 DEF Settled, Enhances
<1>9. TRUE \in Ever("disable_sprite_limit") <=> On(args)
  BY <1>4, EverIs
<1> QED BY <1>2, <1>3, <1>6, <1>7, <1>8, <1>9 DEF SettingsInOrder

\* For any names, values, files and profiles, in any order of flags and files,
\* the tool runs under the profile's settings, then those said last, then what
\* the image suggests, then the defaults (parse_args, apply_config_file, main).
THEOREM SettingsAlwaysInOrder == CommandSpec => []SettingsInOrder
<1>1. CommandInit => CommandInv
  BY CommandStarts
<1>2. CommandInv /\ [CommandNext]_commandVars => CommandInv'
  BY CommandStep
<1>3. CommandInv => SettingsInOrder
  BY SettledInOrder
<1> QED BY <1>1, <1>2, <1>3, PTL DEF CommandSpec

---------------------------------------------------------------------------
(***************************************************************************)
(* Headers.  The checksum leaves out the header it is written into, and    *)
(* writing it moves neither the header analysis finds nor its size.        *)
(***************************************************************************)

\* An image is a list of blocks, each with a header's slot.
Blocks(rom, size, words) ==
    rom \in [1 .. size -> [body : BodySums,
                           header : [magic : BOOLEAN, region : BOOLEAN, code : Nat, checksum : words]]]

\* An image the header of whose block was just given its checksum.
Checked(rom, size, block) ==
    LET code == rom[block].header.code
    IN  /\ block \in 1 .. size
        /\ OffsetOf(rom) = block =>
              /\ code # NoCode /\ code <= size
              /\ rom[block].header.checksum = checksum_range(rom, code, block)

HeaderInv ==
    \E size \in Nat :
        /\ \E words : Blocks(image, size, words)
        /\ subject # Nowhere => Checked(image, size, subject)

\* The checksum written is the one analysis computes.
LEMMA ChecksumWritten ==
    ASSUME NEW size \in Nat, NEW words, NEW rom, Blocks(rom, size, words),
           NEW block \in 1 .. size, NEW old,
           Summable(rom, block)
    PROVE  /\ \E more : Blocks(WithChecksum(old, rom, block), size, more)
           /\ Checked(WithChecksum(old, rom, block), size, block)
<1> DEFINE sum == checksum_range(rom, rom[OffsetOf(rom)].header.code, block)
           new == [rom EXCEPT ![block].header.checksum = sum]
<1>1. WithChecksum(old, rom, block) = new
  BY DEF WithChecksum
<1>2. /\ DOMAIN rom = 1 .. size /\ DOMAIN new = 1 .. size
      /\ Len(rom) = size /\ Len(new) = size
  BY DEF Blocks
<1> HIDE DEF sum
<1>3. /\ \A b \in 1 .. size : b # block => new[b] = rom[b]
      /\ new[block].body = rom[block].body
      /\ new[block].header.magic = rom[block].header.magic
      /\ new[block].header.code = rom[block].header.code
      /\ new[block].header.checksum = sum
  BY DEF Blocks
<1>4. Blocks(new, size, words \cup {sum})
  BY DEF Blocks
<1> HIDE DEF new
<1>5. OffsetOf(new) = OffsetOf(rom)
  <2>1. \A i \in DOMAIN HeaderBlocks : HeaderBlocks[i] >= 1
    BY DEF HeaderBlocks
  <2>2. \A i \in DOMAIN HeaderBlocks :
           HeaderBlocks[i] <= size => new[HeaderBlocks[i]].header.magic = rom[HeaderBlocks[i]].header.magic
    <3> TAKE i \in DOMAIN HeaderBlocks
    <3> HAVE HeaderBlocks[i] <= size
    <3>1. HeaderBlocks[i] \in 1 .. size
      BY <2>1 DEF HeaderBlocks
    <3> QED BY <1>3, <3>1
  <2>3. Found(new) = Found(rom)
    BY <1>2, <2>2 DEF Found
  <2> QED BY <2>3 DEF OffsetOf
<1>6. ASSUME OffsetOf(new) = block
      PROVE  /\ new[block].header.code # NoCode /\ new[block].header.code <= size
             /\ new[block].header.checksum = checksum_range(new, new[block].header.code, block)
  <2> DEFINE code == rom[block].header.code
  <2>1. code # NoCode /\ code <= size
    BY <1>2, <1>5, <1>6 DEF Summable
  <2>2. \A b \in 1 .. code : b \in 1 .. size
    BY <2>1 DEF Blocks
  <2>3. [b \in 1 .. code |-> new[b].body + (IF b = block THEN 0 ELSE HeaderSum(new[b].header))]
        = [b \in 1 .. code |-> rom[b].body + (IF b = block THEN 0 ELSE HeaderSum(rom[b].header))]
    BY <1>3, <2>2
  <2>4. checksum_range(new, code, block) = checksum_range(rom, code, block)
    BY <2>3 DEF checksum_range
  <2> QED BY <1>3, <1>5, <1>6, <2>1, <2>4 DEF sum
<1>7. Checked(new, size, block)
  BY <1>6 DEF Checked
<1> QED BY <1>1, <1>4, <1>7

\* A header is found inside the image.
LEMMA FoundInside ==
    ASSUME NEW rom, Len(rom) \in Nat, OffsetOf(rom) # Nowhere
    PROVE  OffsetOf(rom) \in 1 .. Len(rom)
<1>1. Found(rom) # {} /\ OffsetOf(rom) = HeaderBlocks[Min(Found(rom))]
  BY DEF OffsetOf
<1>2. Found(rom) \in SUBSET Nat
  BY DEF Found, HeaderBlocks
<1>3. \E n \in Found(rom) : \A k \in Found(rom) : n <= k
  BY <1>1, <1>2, LeastOne
<1>4. Min(Found(rom)) \in Found(rom)
  BY <1>3 DEF Min
<1>5. HeaderBlocks[Min(Found(rom))] \in 1 .. Len(rom)
  <2> DEFINE i == Min(Found(rom))
  <2>1. i \in DOMAIN HeaderBlocks /\ HeaderBlocks[i] <= Len(rom)
    BY <1>4 DEF Found
  <2>2. i \in 1 .. 4
    BY <2>1 DEF HeaderBlocks
  <2>3. HeaderBlocks[i] \in Nat \ {0}
    BY <2>2 DEF HeaderBlocks
  <2> HIDE DEF i
  <2>4. HeaderBlocks[i] \in 1 .. Len(rom)
    BY <2>1, <2>3
  <2> QED BY <2>4 DEF i
<1> QED BY <1>1, <1>5

\* Every edit of the image and every header written.
LEMMA HeaderStep == HeaderInv /\ [HeaderNext]_headerVars => HeaderInv'
<1> SUFFICES ASSUME HeaderInv, [HeaderNext]_headerVars PROVE HeaderInv'
  OBVIOUS
<1>1. PICK size \in Nat : \E words : Blocks(image, size, words) /\ (subject # Nowhere => Checked(image, size, subject))
  BY DEF HeaderInv
<1>2. PICK words : Blocks(image, size, words)
  BY <1>1
<1>3. DOMAIN image = 1 .. size /\ Len(image) = size
  BY <1>2 DEF Blocks
<1>4. CASE EditImage
  <2>1. subject' = Nowhere
    BY <1>4 DEF EditImage
  <2>2. ASSUME NEW block \in DOMAIN image, NEW body \in BodySums, image' = [image EXCEPT ![block].body = body]
        PROVE  Blocks(image', size, words)
    BY <1>2, <2>2 DEF Blocks
  <2>3. ASSUME NEW block \in DOMAIN image \cap Range(HeaderBlocks), NEW magic \in BOOLEAN, NEW code \in {NoCode, 1, 4},
               image' = [image EXCEPT ![block].header =
                            [magic |-> magic, region |-> TRUE, code |-> code, checksum |-> 0]]
        PROVE  Blocks(image', size, words \cup {0})
    <3> DEFINE S == [magic : BOOLEAN, region : BOOLEAN, code : Nat, checksum : words \cup {0}]
               header == [magic |-> magic, region |-> TRUE, code |-> code, checksum |-> 0]
    <3>1. header \in S
      BY DEF NoCode
    <3>2. image \in [1 .. size -> [body : BodySums, header : S]]
      BY <1>2 DEF Blocks
    <3> HIDE DEF S, header
    <3>3. image' = [image EXCEPT ![block].header = header]
      BY <2>3 DEF header
    <3>4. image' \in [1 .. size -> [body : BodySums, header : S]]
      BY <3>1, <3>2, <3>3
    <3> QED BY <3>4 DEF Blocks, S
  <2>4. \E more : Blocks(image', size, more)
    BY <1>4, <2>2, <2>3 DEF EditImage
  <2> QED BY <2>1, <2>4 DEF HeaderInv
<1>5. CASE Refused
  BY <1>1, <1>5 DEF HeaderInv, Refused
<1>6. CASE RebuildHeader
  <2> DEFINE block == OffsetOf(image)
  <2>1. CASE block # Nowhere /\ Summable(image, block)
    <3>1. image' = WithChecksum(image, image, block) /\ subject' = block
      BY <1>6, <2>1 DEF RebuildHeader
    <3>2. block \in 1 .. size
      BY <1>3, <2>1, FoundInside
    <3> HIDE DEF block
    <3>3. /\ \E more : Blocks(image', size, more)
          /\ Checked(image', size, block)
      BY <1>2, <2>1, <3>1, <3>2, ChecksumWritten
    <3> QED BY <3>1, <3>3 DEF HeaderInv
  <2> QED BY <1>5, <1>6, <2>1 DEF RebuildHeader
<1>7. ASSUME NEW region \in BOOLEAN, GenerateHeader(region)
      PROVE  HeaderInv'
  <2> DEFINE block == cartridge_standard_header_offset(Len(image))
             written == [image EXCEPT ![block].header =
                            [magic |-> TRUE, region |-> region, code |-> Len(image), checksum |-> @.checksum]]
  <2>1. CASE block # Nowhere /\ Summable(written, block)
             /\ image' = WithChecksum(image, written, block) /\ subject' = block
    <3>1. block \in 1 .. size
      BY <1>3, <2>1 DEF cartridge_standard_header_offset, Nowhere
    <3>2. Blocks(written, size, words)
      <4> HIDE DEF block
      <4> QED BY <1>2, <1>3, <3>1 DEF Blocks
    <3> HIDE DEF block, written
    <3>3. /\ \E more : Blocks(image', size, more)
          /\ Checked(image', size, block)
      BY <2>1, <3>1, <3>2, ChecksumWritten
    <3> QED BY <2>1, <3>3 DEF HeaderInv
  <2> QED BY <1>5, <1>7, <2>1 DEF GenerateHeader
<1>8. CASE UNCHANGED headerVars
  BY <1>1, <1>8 DEF headerVars, HeaderInv
<1> QED BY <1>4, <1>6, <1>7, <1>8 DEF HeaderNext

\* The header a command wrote verifies, in every image it can be written into.
THEOREM WrittenHeadersVerify == HeaderSpec => []WrittenHeaderVerifies
<1>1. HeaderInit => HeaderInv
  <2> SUFFICES ASSUME HeaderInit PROVE HeaderInv
    OBVIOUS
  <2>1. PICK size \in ImageSizes : image \in [1 .. size -> [body : BodySums, header : {PlainHeader}]]
    BY DEF HeaderInit
  <2>2. PlainHeader \in [magic : BOOLEAN, region : BOOLEAN, code : Nat, checksum : {0}]
    BY DEF PlainHeader, NoCode
  <2>3. Blocks(image, size, {0})
    <3> DEFINE S == [magic : BOOLEAN, region : BOOLEAN, code : Nat, checksum : {0}]
    <3> HIDE DEF S
    <3>1. PlainHeader \in S
      BY <2>2 DEF S
    <3>2. image \in [1 .. size -> [body : BodySums, header : S]]
      BY <2>1, <3>1
    <3> QED BY <3>2 DEF Blocks, S
  <2> QED BY <2>3, HeaderAssumption DEF HeaderInit, HeaderInv, HeaderAssumption
<1>2. HeaderInv /\ [HeaderNext]_headerVars => HeaderInv'
  BY HeaderStep
<1>3. HeaderInv => WrittenHeaderVerifies
  <2> SUFFICES ASSUME HeaderInv, subject # Nowhere, OffsetOf(image) = subject
               PROVE  checksum_matches(image, subject)
    BY DEF WrittenHeaderVerifies
  <2>1. PICK size \in Nat : \E words : Blocks(image, size, words) /\ Checked(image, size, subject)
    BY DEF HeaderInv
  <2>2. Len(image) = size
    BY <2>1 DEF Blocks
  <2> QED BY <2>1, <2>2 DEF Checked, checksum_matches, declared_size_fits_rom
<1> QED BY <1>1, <1>2, <1>3, PTL DEF HeaderSpec

---------------------------------------------------------------------------
(***************************************************************************)
(* Sprites.  A pass over the sprite table is a recursive function of the   *)
(* sprite's position; RightPass says what it has found after n sprites.    *)
(* Only the accurate pass counts: the enhanced one's status is put back.   *)
(***************************************************************************)

\* Sprites, status bits and the state of a pass over the table.
SpriteEntries == [row : Nat, column : Nat]
Bits == [overflow : BOOLEAN, collision : BOOLEAN, fifth : Nat]
Passes == [visible : Nat, pixels : SUBSET Nat, ended : BOOLEAN, status : Bits]

\* The mode and the table are in range.
Fixed == /\ tms \in BOOLEAN /\ tall \in BOOLEAN
         /\ table \in [1 .. SpriteCount -> SpriteEntries]

\* The sprites that cover a line and their ranks.
LEMMA Ranks ==
    ASSUME NEW at
    PROVE  /\ Covering(at) \subseteq 1 .. SpriteCount
           /\ RankOf(0, at) = 0
           /\ Cardinality(Covering(at)) = RankOf(SpriteCount, at)
           /\ \A n \in 0 .. SpriteCount : RankOf(n, at) \in Nat
           /\ \A n \in 1 .. SpriteCount :
                 RankOf(n, at) = RankOf(n - 1, at) + (IF n \in Covering(at) THEN 1 ELSE 0)
           /\ \A i, j \in 0 .. SpriteCount : i <= j => RankOf(i, at) <= RankOf(j, at)
<1>1. SpriteCount \in Nat /\ Covering(at) \in SUBSET (1 .. SpriteCount)
  BY SpritesAssumption DEF SpritesAssumption, Covering, Listed
<1>2. \A n : RankOf(n, at) = CountTo(Covering(at), n)
  BY DEF RankOf, CountTo
<1> QED BY <1>1, <1>2, Counted

\* Two sprites that cover a line have different ranks.
LEMMA RanksDiffer ==
    ASSUME NEW at, NEW i \in Covering(at), NEW j \in Covering(at), i < j
    PROVE  RankOf(i, at) < RankOf(j, at)
<1>0. SpriteCount \in Nat
  BY SpritesAssumption DEF SpritesAssumption
<1>1. i \in 1 .. SpriteCount /\ j \in 1 .. SpriteCount
  BY Ranks
<1>2. j - 1 \in 0 .. SpriteCount /\ i <= j - 1 /\ i \in 0 .. SpriteCount
  BY <1>0, <1>1
<1>3. RankOf(i, at) <= RankOf(j - 1, at) /\ RankOf(i, at) \in Nat /\ RankOf(j - 1, at) \in Nat
  BY <1>2, Ranks
<1>4. RankOf(j, at) = RankOf(j - 1, at) + 1
  BY <1>1, Ranks
<1> QED BY <1>3, <1>4

\* The turns of the loop are a pass: some function of the sprites seen so far.
LEMMA TurnTyped ==
    ASSUME NEW pass \in Passes, NEW sprite \in 1 .. SpriteCount, NEW at, NEW config
    PROVE  SpriteTurn(pass, sprite, at, config) \in Passes
<1> DEFINE drawn == pass.visible + 1 <= Limit \/ pass.visible + 1 <= RenderLimit(config)
           new == IF drawn THEN PixelsOf(sprite) ELSE {}
           bits == [overflow  |-> pass.status.overflow \/ pass.visible + 1 > Limit,
                    fifth     |-> IF tms /\ pass.visible + 1 = Limit + 1 THEN sprite ELSE pass.status.fifth,
                    collision |-> pass.status.collision \/
                                    (pass.visible + 1 <= Limit /\ new \cap pass.pixels # {})]
<1>1. new \in SUBSET Nat
  <2>1. Width \in Nat
    BY SpritesAssumption DEF SpritesAssumption
  <2> QED BY <2>1 DEF PixelsOf
<1>2. sprite \in Nat /\ Limit \in Nat
  BY SpritesAssumption DEF SpritesAssumption
<1> HIDE DEF new
<1>3. bits \in Bits
  BY <1>2 DEF Passes, Bits
<1> HIDE DEF bits
<1>4. [pass EXCEPT !.ended = TRUE] \in Passes
  BY DEF Passes
<1>5. [pass EXCEPT !.visible = pass.visible + 1, !.pixels = @ \cup new, !.status = bits] \in Passes
  <2> DEFINE all == pass.pixels \cup new
             rank == pass.visible + 1
  <2>1. pass.visible \in Nat /\ pass.pixels \in SUBSET Nat
    BY DEF Passes
  <2>2. all \in SUBSET Nat /\ rank \in Nat
    <3>1. \A c \in all : c \in Nat
      BY <1>1, <2>1
    <3> HIDE DEF all
    <3> QED BY <2>1, <3>1
  <2> HIDE DEF all, rank
  <2>3. [pass EXCEPT !.visible = rank, !.pixels = all, !.status = bits] \in Passes
    BY <1>3, <2>2 DEF Passes
  <2> QED BY <2>3 DEF all, rank
<1> QED BY <1>4, <1>5 DEF SpriteTurn, bits, new

-----------------------------------------------------------------------------
\* What the loop has found after n sprites, in the hardware's terms.
Fifth(sprite, at) == sprite \in Covering(at) /\ RankOf(sprite, at) = Limit + 1

Painted(n, at) ==
    {c \in Nat : \E i \in Covering(at) : i <= n /\ RankOf(i, at) <= Limit /\ c \in PixelsOf(i)}

TouchingUpto(n, at) ==
    \E i, j \in Covering(at) :
        j <= n /\ i < j /\ RankOf(j, at) <= Limit /\ PixelsOf(i) \cap PixelsOf(j) # {}

RightBits(bits, before, n, at) ==
    /\ bits.overflow = (before.overflow \/ RankOf(n, at) > Limit)
    /\ bits.collision = (before.collision \/ TouchingUpto(n, at))
    /\ IF tms /\ RankOf(n, at) > Limit THEN Fifth(bits.fifth, at) ELSE bits.fifth = before.fifth

RightPass(pass, before, n, at) ==
    /\ pass.ended = (\E j \in 1 .. n : EndsTable(table[j].row))
    /\ pass.visible = RankOf(n, at)
    /\ pass.pixels = Painted(n, at)
    /\ RightBits(pass.status, before, n, at)

\* A sprite that does not cover the line leaves all that as it was.
LEMMA QuietTurn ==
    ASSUME NEW at, NEW n \in 0 .. SpriteCount - 1, n + 1 \notin Covering(at)
    PROVE  /\ RankOf(n + 1, at) = RankOf(n, at)
           /\ Painted(n + 1, at) = Painted(n, at)
           /\ TouchingUpto(n + 1, at) = TouchingUpto(n, at)
<1>0. SpriteCount \in Nat
  BY SpritesAssumption DEF SpritesAssumption
<1>1. n + 1 \in 1 .. SpriteCount /\ n + 1 - 1 = n /\ n \in 0 .. SpriteCount
  BY <1>0
<1>2. RankOf(n + 1, at) = RankOf(n, at)
  <2> DEFINE m == n + 1
  <2>1. m \in 1 .. SpriteCount /\ m - 1 = n /\ m \notin Covering(at)
    BY <1>1
  <2> HIDE DEF m
  <2>2. RankOf(m, at) = RankOf(m - 1, at) + 0
    BY <2>1, Ranks
  <2>3. RankOf(n, at) \in Nat
    BY <1>1, Ranks
  <2> QED BY <2>1, <2>2, <2>3 DEF m
<1>3. \A i \in Covering(at) : i <= n + 1 <=> i <= n
  <2>1. Covering(at) \subseteq 1 .. SpriteCount
    BY Ranks
  <2> QED BY <1>0, <2>1
<1> QED BY <1>2, <1>3 DEF Painted, TouchingUpto

\* A sprite's turn in the accurate pass leaves the pass right.
LEMMA RightTurn ==
    ASSUME Fixed, NEW at, NEW before \in Bits, NEW n \in 0 .. SpriteCount - 1,
           NEW pass \in Passes, RightPass(pass, before, n, at)
    PROVE  RightPass(SpriteTurn(pass, n + 1, at, Accurate), before, n + 1, at)
<1> DEFINE m == n + 1
           next == SpriteTurn(pass, m, at, Accurate)
           rank == pass.visible + 1
<1>0. SpriteCount \in Nat /\ Limit \in Nat
  BY SpritesAssumption DEF SpritesAssumption
<1>1. m \in 1 .. SpriteCount /\ m - 1 = n /\ n \in 0 .. SpriteCount /\ n \in Nat
  BY <1>0
<1>2. pass.ended = (\E j \in 1 .. n : EndsTable(table[j].row)) /\ pass.visible = RankOf(n, at)
  BY DEF RightPass
<1>3. (\E j \in 1 .. m : EndsTable(table[j].row)) <=> (pass.ended \/ EndsTable(table[m].row))
  <2>1. \A j : j \in 1 .. m <=> j \in 1 .. n \/ j = m
    BY <1>1
  <2> QED BY <1>2, <2>1
<1>4. m \in Covering(at) <=> (~(pass.ended \/ EndsTable(table[m].row)) /\ table[m].row = at)
  BY <1>1, <1>3 DEF Covering, Listed
<1>5. CASE pass.ended \/ EndsTable(table[m].row)
  <2>1. next = [pass EXCEPT !.ended = TRUE]
    BY <1>5 DEF SpriteTurn
  <2>2. /\ RankOf(m, at) = RankOf(n, at) /\ Painted(m, at) = Painted(n, at)
        /\ TouchingUpto(m, at) = TouchingUpto(n, at)
    BY <1>4, <1>5, QuietTurn
  <2>3. /\ next.ended = TRUE /\ next.visible = pass.visible /\ next.pixels = pass.pixels
        /\ next.status = pass.status
    BY <2>1 DEF Passes
  <2> HIDE DEF next, m
  <2> QED BY <1>3, <1>5, <2>2, <2>3 DEF RightPass, RightBits, next, m
<1>6. CASE ~(pass.ended \/ EndsTable(table[m].row)) /\ table[m].row # at
  <2>1. next = pass
    BY <1>6 DEF SpriteTurn
  <2>2. /\ RankOf(m, at) = RankOf(n, at) /\ Painted(m, at) = Painted(n, at)
        /\ TouchingUpto(m, at) = TouchingUpto(n, at)
    BY <1>4, <1>6, QuietTurn
  <2>3. pass.ended = FALSE
    BY <1>6 DEF Passes
  <2> HIDE DEF next, m
  <2> QED BY <1>3, <1>6, <2>1, <2>2, <2>3 DEF RightPass, RightBits, next, m
<1>7. CASE ~(pass.ended \/ EndsTable(table[m].row)) /\ table[m].row = at
  <2> DEFINE new == IF rank <= Limit THEN PixelsOf(m) ELSE {}
             bits == [overflow  |-> pass.status.overflow \/ rank > Limit,
                      fifth     |-> IF tms /\ rank = Limit + 1 THEN m ELSE pass.status.fifth,
                      collision |-> pass.status.collision \/ (rank <= Limit /\ new \cap pass.pixels # {})]
  <2>1. next = [pass EXCEPT !.visible = rank, !.pixels = pass.pixels \cup new, !.status = bits]
    <3>1. RenderLimit(Accurate) = Limit
      BY DEF RenderLimit, Accurate
    <3> QED BY <1>7, <3>1 DEF SpriteTurn
  <2>2. m \in Covering(at)
    BY <1>4, <1>7
  <2>3. RankOf(m, at) = rank
    <3> HIDE DEF m
    <3>1. RankOf(m, at) = RankOf(m - 1, at) + 1
      BY <1>1, <2>2, Ranks
    <3> QED BY <1>1, <1>2, <3>1
  <2>4. /\ next.ended = pass.ended /\ next.visible = rank /\ next.pixels = pass.pixels \cup new
        /\ next.status = bits
    <3> HIDE DEF bits, new, rank
    <3> QED BY <2>1 DEF Passes
  <2>5. \A i \in Covering(at) : (i <= m <=> i <= n \/ i = m) /\ (i < m <=> i <= n)
    <3>1. Covering(at) \subseteq 1 .. SpriteCount
      BY Ranks
    <3> QED BY <1>0, <3>1
  <2>6. PixelsOf(m) \subseteq Nat
    <3>1. Width \in Nat
      BY SpritesAssumption DEF SpritesAssumption
    <3> QED BY <3>1 DEF PixelsOf
  <2>7. next.pixels = Painted(m, at)
    <3>1. pass.pixels = Painted(n, at)
      BY DEF RightPass
    <3> HIDE DEF next, rank, m
    <3>2. Painted(m, at) = Painted(n, at) \cup (IF rank <= Limit THEN PixelsOf(m) ELSE {})
      BY <2>2, <2>3, <2>5, <2>6 DEF Painted
    <3> QED BY <2>4, <3>1, <3>2
  <2>8. TouchingUpto(m, at) <=> TouchingUpto(n, at) \/ (rank <= Limit /\ new \cap pass.pixels # {})
    <3>1. \A i \in Covering(at) : i < m => RankOf(i, at) <= rank
      <4>1. \A i \in Covering(at) : i < m => RankOf(i, at) < RankOf(m, at)
        BY <2>2, RanksDiffer
      <4>2. Covering(at) \subseteq 1 .. SpriteCount
        BY Ranks
      <4>3. \A i \in Covering(at) : RankOf(i, at) \in Nat
        <5> TAKE i \in Covering(at)
        <5>1. i \in 0 .. SpriteCount
          BY <1>0, <4>2
        <5> QED BY <5>1, Ranks
      <4>4. rank \in Nat
        BY DEF Passes
      <4> QED BY <2>3, <4>1, <4>3, <4>4
    <3>2. pass.pixels = Painted(n, at)
      BY DEF RightPass
    <3>3. ASSUME rank <= Limit
          PROVE  PixelsOf(m) \cap Painted(n, at) # {} <=>
                 \E i \in Covering(at) : i < m /\ PixelsOf(i) \cap PixelsOf(m) # {}
      <4>1. \A i \in Covering(at) : i < m => RankOf(i, at) <= Limit
        <5>1. \A i \in Covering(at) : i < m => RankOf(i, at) < RankOf(m, at)
          BY <2>2, RanksDiffer
        <5>2. Covering(at) \subseteq 1 .. SpriteCount
          BY Ranks
        <5>3. \A i \in Covering(at) : RankOf(i, at) \in Nat
          <6> TAKE i \in Covering(at)
          <6>1. i \in 0 .. SpriteCount
            BY <1>0, <5>2
          <6> QED BY <6>1, Ranks
        <5>4. rank \in Nat
          BY DEF Passes
        <5> QED BY <1>0, <2>3, <3>3, <5>1, <5>3, <5>4
      <4> HIDE DEF m, rank, next
      <4>2. \A c : c \in Painted(n, at) <=>
                   c \in Nat /\ \E i \in Covering(at) : i <= n /\ RankOf(i, at) <= Limit /\ c \in PixelsOf(i)
        BY DEF Painted
      <4> QED BY <2>5, <2>6, <4>1, <4>2
    <3>4. TouchingUpto(m, at) <=>
             TouchingUpto(n, at) \/ (rank <= Limit /\ \E i \in Covering(at) : i < m /\ PixelsOf(i) \cap PixelsOf(m) # {})
      <4> HIDE DEF m, rank, next
      <4> QED BY <2>2, <2>3, <2>5 DEF TouchingUpto
    <3> HIDE DEF m, rank, next
    <3> QED BY <3>2, <3>3, <3>4
  <2>9. RightBits(bits, before, m, at)
    <3>1. /\ pass.status.overflow = (before.overflow \/ RankOf(n, at) > Limit)
          /\ pass.status.collision = (before.collision \/ TouchingUpto(n, at))
          /\ IF tms /\ RankOf(n, at) > Limit THEN Fifth(pass.status.fifth, at)
             ELSE pass.status.fifth = before.fifth
          /\ pass.status \in Bits
      BY DEF RightPass, RightBits, Passes
    <3>2. RankOf(n, at) \in Nat /\ rank = RankOf(n, at) + 1
      BY <1>2 DEF Passes
    <3> HIDE DEF rank, m, next
    <3>3. bits.overflow = (before.overflow \/ RankOf(m, at) > Limit)
      <4>1. bits.overflow = (pass.status.overflow \/ rank > Limit)
        OBVIOUS
      <4>2. RankOf(n, at) > Limit => rank > Limit
        BY <1>0, <3>2
      <4> HIDE DEF bits
      <4> QED BY <2>3, <3>1, <4>1, <4>2
    <3>4. bits.collision = (before.collision \/ TouchingUpto(m, at))
      BY <2>8, <3>1
    <3>5. IF tms /\ RankOf(m, at) > Limit THEN Fifth(bits.fifth, at) ELSE bits.fifth = before.fifth
      BY <1>0, <2>2, <2>3, <3>1, <3>2 DEF Fifth
    <3> HIDE DEF bits
    <3> QED BY <3>3, <3>4, <3>5 DEF RightBits
  <2>10. next.ended = (\E j \in 1 .. m : EndsTable(table[j].row))
    BY <1>3, <1>7, <2>4 DEF Passes
  <2> HIDE DEF m, next, bits, rank
  <2> QED BY <2>3, <2>4, <2>7, <2>9, <2>10 DEF RightPass, m, next
<1> QED BY <1>5, <1>6, <1>7

\* The accurate pass finds what the hardware does.
LEMMA AccuratePass ==
    ASSUME Fixed, NEW at, NEW before \in Bits
    PROVE  /\ render_sprites(before, at, Accurate) \in Bits
           /\ RightBits(render_sprites(before, at, Accurate), before, SpriteCount, at)
<1> DEFINE N == SpriteCount
           base == [visible |-> 0, pixels |-> {}, ended |-> FALSE, status |-> before]
           F == [x \in (1 .. N) \X Passes |-> SpriteTurn(x[2], x[1], at, Accurate)]
           Solution(f) == f = [n \in 0 .. N |-> IF n = 0 THEN base ELSE SpriteTurn(f[n - 1], n, at, Accurate)]
           A == CHOOSE f : Solution(f)
<1>1. N \in Nat /\ Limit \in Nat /\ base \in Passes
  BY SpritesAssumption DEF SpritesAssumption, Passes
<1>2. F \in [(1 .. N) \X Passes -> Passes]
  BY TurnTyped
<1>3. PICK f \in [0 .. N -> Passes] : Solves(f, N, base, F)
  <2> HIDE DEF F, base, N
  <2>1. N \in Nat /\ base \in Passes
    BY <1>1
  <2> QED BY ONLY <1>2, <2>1, Folding
<1>4. Solution(f)
  <2>1. \A n \in 0 .. N : n # 0 => F[<<n, f[n - 1]>>] = SpriteTurn(f[n - 1], n, at, Accurate)
    <3> SUFFICES ASSUME NEW n \in 0 .. N, n # 0
                 PROVE  F[<<n, f[n - 1]>>] = SpriteTurn(f[n - 1], n, at, Accurate)
      OBVIOUS
    <3>1. n \in 1 .. N /\ n - 1 \in 0 .. N
      BY <1>1
    <3>2. <<n, f[n - 1]>> \in (1 .. N) \X Passes
      BY <1>3, <3>1
    <3> QED BY <3>2
  <2> HIDE DEF F
  <2> QED BY <1>3, <2>1 DEF Solves
<1>5. Solution(A)
  <2> HIDE DEF Solution
  <2> QED BY <1>4
<1>6. render_sprites(before, at, Accurate) = A[N].status
  BY DEF render_sprites
<1> HIDE DEF A, F
<1>7. A[0] = base /\ \A n \in 1 .. N : A[n] = SpriteTurn(A[n - 1], n, at, Accurate)
  <2>1. 0 \in 0 .. N /\ \A n \in 1 .. N : n \in 0 .. N /\ n # 0
    BY <1>1
  <2> QED BY <1>5, <2>1
<1> DEFINE T == {n \in 0 .. N : A[n] \in Passes /\ RightPass(A[n], before, n, at)}
<1>8. 0 \in T
  <2>1. RankOf(0, at) = 0 /\ Covering(at) \subseteq 1 .. SpriteCount
    BY Ranks
  <2>2. Painted(0, at) = {} /\ ~TouchingUpto(0, at)
    <3>1. \A i \in Covering(at) : ~(i <= 0)
      BY <1>1, <2>1
    <3> QED BY <3>1 DEF Painted, TouchingUpto
  <2>3. RightBits(before, before, 0, at)
    BY <1>1, <2>1, <2>2 DEF RightBits, Bits
  <2>4. RightPass(base, before, 0, at)
    BY <2>1, <2>2, <2>3 DEF RightPass
  <2> QED BY <1>1, <1>7, <2>4
<1>9. ASSUME NEW n \in 0 .. N - 1, n \in T PROVE n + 1 \in T
  <2>1. n + 1 \in 1 .. N /\ n + 1 \in 0 .. N /\ n + 1 - 1 = n
    BY <1>1
  <2>2. A[n + 1] = SpriteTurn(A[n], n + 1, at, Accurate)
    <3> DEFINE m == n + 1
    <3>1. m \in 1 .. N /\ m - 1 = n
      BY <2>1
    <3> HIDE DEF m
    <3> QED BY <1>7, <3>1 DEF m
  <2>3. A[n] \in Passes /\ RightPass(A[n], before, n, at)
    BY <1>9
  <2>4. A[n + 1] \in Passes
    BY <2>1, <2>2, <2>3, TurnTyped
  <2>5. RightPass(A[n + 1], before, n + 1, at)
    BY <2>2, <2>3, RightTurn
  <2> QED BY <2>1, <2>4, <2>5
<1> HIDE DEF T
<1>10. N \in T
  <2> HIDE DEF N
  <2>1. 0 .. N \subseteq T
    BY ONLY <1>1, <1>8, <1>9, UpTo
  <2> QED BY <1>1, <2>1
<1>11. A[N] \in Passes /\ RightPass(A[N], before, N, at)
  BY <1>10 DEF T
<1> QED BY <1>6, <1>11 DEF RightPass, Passes

-----------------------------------------------------------------------------
\* The display lines drawn since the status was read, in their order.
SpritesInv ==
    /\ Fixed
    /\ line \in Nat /\ lines_seen \in Seq(Nat)
    /\ \A i \in DOMAIN lines_seen : lines_seen[i] < line
    /\ status \in Bits
    /\ StatusAsHardware

\* The sprite the hardware names on a crowded line.
FifthOf(at) == CHOOSE i \in Covering(at) : RankOf(i, at) = Limit + 1

\* The bits a line adds.
LineBits(bits, before, at) ==
    /\ bits.overflow = (before.overflow \/ Crowded(at))
    /\ bits.collision = (before.collision \/ Touching(at))
    /\ bits.fifth = IF tms /\ Crowded(at) THEN FifthOf(at)
                    ELSE before.fifth

\* A line drawn sets the bits the accurate pass sets, whatever is enhanced.
LEMMA AccurateLine ==
    ASSUME Fixed, NEW at, NEW before \in Bits
    PROVE  /\ render_scanline(before, at) \in Bits
           /\ LineBits(render_scanline(before, at), before, at)
<1> DEFINE bits == render_sprites(before, at, Accurate)
<1>1. bits \in Bits /\ RightBits(bits, before, SpriteCount, at)
  BY AccuratePass
<1> HIDE DEF bits
<1>2. render_scanline(before, at) = bits
  BY DEF render_scanline, Restored, bits
<1>3. RankOf(SpriteCount, at) > Limit <=> Crowded(at)
  BY Ranks DEF Crowded
<1>4. TouchingUpto(SpriteCount, at) <=> Touching(at)
  <2>1. Covering(at) \subseteq 1 .. SpriteCount
    BY Ranks
  <2>2. \A j \in Covering(at) : j <= SpriteCount
    BY <2>1, SpritesAssumption DEF SpritesAssumption
  <2> QED BY <2>2 DEF TouchingUpto, Touching
<1>5. ASSUME NEW i \in Covering(at), NEW j \in Covering(at), RankOf(i, at) = RankOf(j, at)
      PROVE  i = j
  <2>1. Covering(at) \subseteq 1 .. SpriteCount /\ SpriteCount \in Nat
    BY Ranks, SpritesAssumption DEF SpritesAssumption
  <2>2. i \in 0 .. SpriteCount /\ j \in 0 .. SpriteCount /\ i \in Nat /\ j \in Nat
    BY <2>1
  <2>3. RankOf(i, at) \in Nat /\ RankOf(j, at) \in Nat
    BY <2>2, Ranks
  <2>4. ~(i < j) /\ ~(j < i)
    BY <1>5, <2>3, RanksDiffer
  <2> QED BY <2>2, <2>4
<1>6. \A i : Fifth(i, at) => FifthOf(at) = i
  BY <1>5 DEF Fifth, FifthOf
<1> QED BY <1>1, <1>2, <1>3, <1>4, <1>6 DEF RightBits, LineBits


SeenLines == {lines_seen[i] : i \in DOMAIN lines_seen}
CrowdedLines == {at \in SeenLines : Crowded(at)}

\* StatusAsHardware, its parts named.
Overflows == status.overflow = (CrowdedLines # {})
Collides == status.collision = (\E at \in SeenLines : Touching(at))
LastCrowded == CHOOSE at \in CrowdedLines : \A other \in CrowdedLines : other <= at
FifthSprite ==
    status.fifth = IF ~tms \/ CrowdedLines = {} THEN 0
                   ELSE FifthOf(LastCrowded)

\* The property, bit by bit.
LEMMA StatusParts == StatusAsHardware <=> Overflows /\ Collides /\ FifthSprite
BY DEF StatusAsHardware, Overflows, Collides, FifthSprite, FifthOf, LastCrowded, CrowdedLines, SeenLines

\* A step that keeps the mode and the table keeps what covers a line.
LEMMA SpritesKept ==
    ASSUME UNCHANGED <<tms, tall, table>>
    PROVE  /\ \A at : Crowded(at)' = Crowded(at)
           /\ \A at : Touching(at)' = Touching(at)
           /\ \A at : FifthOf(at)' = FifthOf(at)
<1>1. \A row : EndsTable(row)' = EndsTable(row)
  BY DEF EndsTable, active_height
<1>2. Listed' = Listed
  BY <1>1 DEF Listed
<1>3. \A at : Covering(at)' = Covering(at)
  BY <1>2 DEF Covering
<1>4. \A i, at : RankOf(i, at)' = RankOf(i, at)
  BY <1>3 DEF RankOf
<1>5. \A i : PixelsOf(i)' = PixelsOf(i)
  BY DEF PixelsOf
<1>6. \A at : Touching(at)' = Touching(at)
  BY <1>3, <1>4, <1>5 DEF Touching
<1>7. \A at : Crowded(at)' = Crowded(at)
  BY <1>3 DEF Crowded
<1>8. \A at : FifthOf(at)' = FifthOf(at)
  BY <1>3, <1>4 DEF FifthOf
<1> QED BY <1>6, <1>7, <1>8

\* A display line is added to those seen.
LEMMA DisplayLine ==
    ASSUME SpritesInv, UNCHANGED <<tms, tall, table>>, line' = line + 1,
           status' = render_scanline(status, line), lines_seen' = Append(lines_seen, line)
    PROVE  SpritesInv'
<1>1. /\ Fixed /\ line \in Nat /\ lines_seen \in Seq(Nat) /\ status \in Bits
      /\ \A i \in DOMAIN lines_seen : lines_seen[i] < line
      /\ Overflows /\ Collides /\ FifthSprite
  BY StatusParts DEF SpritesInv
<1>2. status' \in Bits /\ LineBits(status', status, line)
  BY <1>1, AccurateLine
<1>3. /\ lines_seen' \in Seq(Nat)
      /\ DOMAIN lines_seen' = 1 .. Len(lines_seen) + 1
      /\ DOMAIN lines_seen = 1 .. Len(lines_seen) /\ Len(lines_seen) \in Nat
      /\ \A i \in 1 .. Len(lines_seen) : lines_seen'[i] = lines_seen[i]
      /\ lines_seen'[Len(lines_seen) + 1] = line
  BY <1>1
<1>4. SeenLines' = SeenLines \cup {line}
  <2>1. \A i : i \in 1 .. Len(lines_seen) + 1 <=> i \in 1 .. Len(lines_seen) \/ i = Len(lines_seen) + 1
    BY <1>3
  <2>2. \A at : at \in SeenLines' <=> \E i \in 1 .. Len(lines_seen) + 1 : at = lines_seen'[i]
    BY <1>3 DEF SeenLines
  <2>3. \A at : at \in SeenLines <=> \E i \in 1 .. Len(lines_seen) : at = lines_seen[i]
    BY <1>3 DEF SeenLines
  <2> QED BY <1>3, <2>1, <2>2, <2>3
<1>5. \A at \in SeenLines : at \in Nat /\ at < line
  BY <1>1 DEF SeenLines
<1>6. CrowdedLines' = IF Crowded(line) THEN CrowdedLines \cup {line} ELSE CrowdedLines
  BY <1>4, SpritesKept DEF CrowdedLines
<1>7. Overflows'
  BY <1>1, <1>2, <1>6 DEF Overflows, LineBits, Bits
<1>8. Collides'
  <2>1. (\E at \in SeenLines : Touching(at))' <=> Touching(line) \/ \E at \in SeenLines : Touching(at)
    BY <1>4, SpritesKept
  <2>2. status'.collision = (status.collision \/ Touching(line)) /\ status'.collision \in BOOLEAN
    BY <1>2 DEF LineBits, Bits
  <2> QED BY <1>1, <2>1, <2>2 DEF Collides
<1>9. FifthSprite'
  <2>1. CASE ~Crowded(line)
    <3>1. CrowdedLines' = CrowdedLines /\ LastCrowded' = LastCrowded
      BY <1>6, <2>1 DEF LastCrowded
    <3>2. status'.fifth = status.fifth
      BY <1>2, <2>1 DEF LineBits
    <3>3. FifthOf(LastCrowded)' = FifthOf(LastCrowded)
      BY <3>1, SpritesKept
    <3> QED BY <1>1, <3>1, <3>2, <3>3 DEF FifthSprite
  <2>2. CASE Crowded(line)
    <3>1. LastCrowded' = line
      <4> DEFINE more == CrowdedLines \cup {line}
      <4>1. line \in more /\ \A other \in more : other <= line
        BY <1>1, <1>5 DEF CrowdedLines
      <4>2. \A at \in more : (\A other \in more : other <= at) => at = line
        <5>1. \A at \in CrowdedLines : at \in Nat /\ at < line
          BY <1>5 DEF CrowdedLines
        <5> QED BY <1>1, <5>1, SMTT(60)
      <4>3. CrowdedLines' = more
        BY <1>6, <2>2
      <4> HIDE DEF more
      <4> QED BY <4>1, <4>2, <4>3 DEF LastCrowded
    <3>2. CrowdedLines' # {}
      BY <1>6, <2>2
    <3>3. CASE tms
      <4>1. status'.fifth = FifthOf(line)
        BY <1>2, <2>2, <3>3 DEF LineBits
      <4> QED BY <3>1, <3>2, <3>3, <4>1, SpritesKept DEF FifthSprite
    <3>4. CASE ~tms
      <4>1. status'.fifth = 0
        BY <1>1, <1>2, <3>4 DEF LineBits, FifthSprite
      <4> QED BY <3>4, <4>1 DEF FifthSprite
    <3> QED BY <3>3, <3>4
  <2> QED BY <2>1, <2>2
<1>10. \A i \in DOMAIN lines_seen' : lines_seen'[i] < line'
  <2>1. \A i \in 1 .. Len(lines_seen) : lines_seen[i] \in Nat /\ lines_seen[i] < line
    BY <1>1, <1>3
  <2> QED BY <1>1, <1>3, <2>1
<1>11. Fixed' /\ line' \in Nat
  BY <1>1 DEF Fixed
<1>12. StatusAsHardware'
  BY <1>7, <1>8, <1>9, StatusParts, PTL
<1> QED BY <1>2, <1>3, <1>10, <1>11, <1>12 DEF SpritesInv

\* Every step of the sprite unit.
LEMMA SpritesStep == SpritesInv /\ [SpritesNext]_spriteVars => SpritesInv'
<1> SUFFICES ASSUME SpritesInv, [SpritesNext]_spriteVars PROVE SpritesInv'
  OBVIOUS
<1>1. ASSUME UNCHANGED <<tms, tall, table, status, lines_seen>>, line' \in {line, line + 1}
      PROVE  SpritesInv'
  <2>1. UNCHANGED <<SeenLines, CrowdedLines>>
    BY <1>1, SpritesKept DEF SeenLines, CrowdedLines
  <2>2. LastCrowded' = LastCrowded
    BY <2>1 DEF LastCrowded
  <2>3. Overflows /\ Collides /\ FifthSprite
    BY StatusParts DEF SpritesInv
  <2>4. Overflows'
    BY <1>1, <2>1, <2>3 DEF Overflows
  <2>5. Collides'
    BY <1>1, <2>1, <2>3, SpritesKept DEF Collides
  <2>6. FifthOf(LastCrowded)' = FifthOf(LastCrowded)
    BY <1>1, <2>2, SpritesKept
  <2>7. FifthSprite'
    BY <1>1, <2>1, <2>3, <2>6 DEF FifthSprite
  <2>8. StatusAsHardware'
    BY <2>4, <2>5, <2>7, StatusParts, PTL
  <2>9. line' \in Nat /\ \A i \in DOMAIN lines_seen' : lines_seen'[i] < line'
    BY <1>1 DEF SpritesInv
  <2> QED BY <1>1, <2>8, <2>9 DEF SpritesInv, Fixed
<1>2. CASE RenderLine
  <2>1. CASE line < active_height
    BY <1>2, <2>1, DisplayLine DEF RenderLine
  <2>2. CASE ~(line < active_height)
    <3>1. status' = status
      BY <1>2, <2>2 DEF RenderLine, render_enhanced_scanline, Restored
    <3> QED BY <1>1, <1>2, <2>2, <3>1 DEF RenderLine
  <2> QED BY <2>1, <2>2
<1>3. ASSUME NEW config \in EnhancementSets, set_enhancements(config) PROVE SpritesInv'
  BY <1>1, <1>3 DEF set_enhancements
<1>4. CASE ReadSpriteStatus
  <2>1. UNCHANGED <<tms, tall, table, line>> /\ status' = Cleared /\ lines_seen' = << >>
    BY <1>4 DEF ReadSpriteStatus
  <2>2. SeenLines' = {} /\ CrowdedLines' = {}
    BY <2>1 DEF SeenLines, CrowdedLines
  <2>3. Overflows' /\ Collides' /\ FifthSprite'
    BY <2>1, <2>2 DEF Overflows, Collides, FifthSprite, Cleared
  <2>4. StatusAsHardware'
    BY <2>3, StatusParts, PTL
  <2> QED BY <2>1, <2>4 DEF SpritesInv, Fixed, Cleared, Bits
<1>5. CASE UNCHANGED spriteVars
  BY <1>1, <1>5 DEF spriteVars, SpritesInv
<1> QED BY <1>2, <1>3, <1>4, <1>5 DEF SpritesNext

\* For any sprite table, limit and lines, the status bits render_scanline
\* leaves are the hardware's, whatever enhancements are switched on or off
\* between lines.
THEOREM StatusAlwaysAsHardware == SpritesSpec => []StatusAsHardware
<1>1. SpritesInit => SpritesInv
  <2> SUFFICES ASSUME SpritesInit PROVE SpritesInv
    OBVIOUS
  <2>1. SeenLines = {} /\ CrowdedLines = {}
    BY DEF SpritesInit, SeenLines, CrowdedLines
  <2>2. StatusAsHardware
    BY <2>1, StatusParts DEF SpritesInit, Cleared, Overflows, Collides, FifthSprite
  <2>3. Fixed
    <3>1. LinesInFrame \in Nat /\ SpriteRows \subseteq Nat /\ SpriteColumns \subseteq Nat
      BY SpritesAssumption DEF SpritesAssumption
    <3>2. [row : SpriteRows \cup {EndOfTable}, column : SpriteColumns] \subseteq SpriteEntries
      BY <3>1 DEF EndOfTable, SpriteEntries
    <3> DEFINE S == [row : SpriteRows \cup {EndOfTable}, column : SpriteColumns]
    <3> HIDE DEF S
    <3>3. table \in [1 .. SpriteCount -> S]
      BY DEF SpritesInit, S
    <3> QED BY <3>2, <3>3 DEF SpritesInit, Fixed, S
  <2> QED BY <2>2, <2>3 DEF SpritesInit, SpritesInv, Cleared, Bits
<1>2. SpritesInv /\ [SpritesNext]_spriteVars => SpritesInv'
  BY SpritesStep
<1>3. SpritesInv => StatusAsHardware
  BY DEF SpritesInv
<1> QED BY <1>1, <1>2, <1>3, PTL DEF SpritesSpec

-----------------------------------------------------------------------------
(***************************************************************************)
(* Headless runs.  The parsed events stand for the lines of the script read*)
(* so far (ScriptRead, Places); the commands of the file, added up, bring  *)
(* every write already in it to its sample (Timed).                        *)
(***************************************************************************)

(* Waits *)

CommandLists == Seq({WriteCommand} \cup Nat)
Value(command) == IF command = WriteCommand THEN 0 ELSE command

\* Waited adds up the commands one by one.
LEMMA WaitedIs ==
    ASSUME NEW list \in CommandLists
    PROVE  /\ Waited(list, 0) = 0
           /\ \A n \in 0 .. Len(list) : Waited(list, n) \in Nat
           /\ \A n \in 1 .. Len(list) : Waited(list, n) = Waited(list, n - 1) + Value(list[n])
<1> DEFINE N == Len(list)
           F == [x \in (1 .. N) \X Nat |-> x[2] + Value(list[x[1]])]
           Solution(f) == f = [i \in 0 .. N |-> IF i = 0 THEN 0
                                  ELSE f[i - 1] + (IF list[i] = WriteCommand THEN 0 ELSE list[i])]
           A == CHOOSE f : Solution(f)
<1>1. N \in Nat /\ \A i \in 1 .. N : Value(list[i]) \in Nat
  BY DEF CommandLists, Value
<1>2. F \in [(1 .. N) \X Nat -> Nat]
  <2> HIDE DEF N
  <2> QED BY <1>1
<1>3. PICK f \in [0 .. N -> Nat] : Solves(f, N, 0, F)
  <2> HIDE DEF F, N
  <2>1. N \in Nat /\ 0 \in Nat
    BY <1>1
  <2> QED BY ONLY <1>2, <2>1, Folding
<1>4. Solution(f)
  <2>1. \A n \in 0 .. N : n # 0 =>
           F[<<n, f[n - 1]>>] = f[n - 1] + (IF list[n] = WriteCommand THEN 0 ELSE list[n])
    <3> SUFFICES ASSUME NEW n \in 0 .. N, n # 0
                 PROVE  F[<<n, f[n - 1]>>] = f[n - 1] + (IF list[n] = WriteCommand THEN 0 ELSE list[n])
      OBVIOUS
    <3>1. n \in 1 .. N /\ n - 1 \in 0 .. N
      BY <1>1
    <3>2. <<n, f[n - 1]>> \in (1 .. N) \X Nat
      BY <1>3, <3>1
    <3> QED BY <3>2 DEF Value
  <2> HIDE DEF F
  <2> QED BY <1>3, <2>1 DEF Solves
<1>5. Solution(A)
  <2> HIDE DEF Solution
  <2> QED BY <1>4
<1>6. \A n : Waited(list, n) = A[n]
  BY DEF Waited
<1> HIDE DEF A
<1>7. A[0] = 0 /\ \A n \in 1 .. N : A[n] = A[n - 1] + Value(list[n])
  <2>1. 0 \in 0 .. N /\ \A n \in 1 .. N : n \in 0 .. N /\ n # 0
    BY <1>1
  <2> QED BY <1>5, <2>1 DEF Value
<1> DEFINE T == {n \in 0 .. N : A[n] \in Nat}
<1>8. 0 .. N \subseteq T
  <2>1. 0 \in T
    BY <1>1, <1>7
  <2>2. ASSUME NEW n \in 0 .. N - 1, n \in T PROVE n + 1 \in T
    <3> DEFINE m == n + 1
    <3>1. m \in 1 .. N /\ m - 1 = n
      BY <1>1
    <3> HIDE DEF m
    <3>2. A[m] = A[n] + Value(list[m]) /\ Value(list[m]) \in Nat /\ A[n] \in Nat
      BY <1>1, <1>7, <2>2, <3>1
    <3> QED BY <1>1, <3>1, <3>2 DEF m
  <2> HIDE DEF T, N
  <2> QED BY ONLY <1>1, <2>1, <2>2, UpTo
<1> QED BY <1>6, <1>7, <1>8

\* A list that begins with another has waited as long when that one ends.
LEMMA WaitedSame ==
    ASSUME NEW list \in CommandLists, NEW more \in CommandLists,
           Len(list) <= Len(more), \A n \in 1 .. Len(list) : more[n] = list[n]
    PROVE  \A n \in 0 .. Len(list) : Waited(more, n) = Waited(list, n)
<1> DEFINE N == Len(list)
           T == {n \in 0 .. N : Waited(more, n) = Waited(list, n)}
<1>1. N \in Nat /\ Len(more) \in Nat
  BY DEF CommandLists
<1>2. 0 \in T
  BY <1>1, WaitedIs
<1>3. ASSUME NEW n \in 0 .. N - 1, n \in T PROVE n + 1 \in T
  <2> DEFINE m == n + 1
  <2>1. m \in 1 .. N /\ m \in 1 .. Len(more) /\ m - 1 = n /\ m \in 0 .. N
    BY <1>1
  <2> HIDE DEF m
  <2>2. /\ Waited(more, m) = Waited(more, n) + Value(more[m])
        /\ Waited(list, m) = Waited(list, n) + Value(list[m])
    BY <2>1, WaitedIs
  <2>3. Waited(more, m) = Waited(list, m)
    BY <1>3, <2>1, <2>2
  <2> QED BY <2>1, <2>3 DEF m
<1> HIDE DEF T
<1>4. 0 .. N \subseteq T
  <2> HIDE DEF N
  <2> QED BY ONLY <1>1, <1>2, <1>3, UpTo
<1> QED BY <1>4 DEF T

\* The commands of a wait add up to it, and each is short enough.
LEMMA WaitsAddUp ==
    ASSUME NEW list \in CommandLists, NEW samples \in Nat
    PROVE  LET more == append_vgm_wait(list, samples) IN
           /\ more \in CommandLists
           /\ Len(list) <= Len(more)
           /\ \A n \in 1 .. Len(list) : more[n] = list[n]
           /\ \A n \in Len(list) + 1 .. Len(more) : more[n] \in 1 .. LongestWait
           /\ Waited(more, Len(more)) = Waited(list, Len(list)) + samples
<1> DEFINE L == LongestWait
           q == samples \div L
           r == samples % L
           N == Len(list)
           more == append_vgm_wait(list, samples)
<1>1. L \in Nat \ {0} /\ N \in Nat
  BY HeadlessAssumption DEF HeadlessAssumption, CommandLists
<1>2. q \in Nat /\ r \in 0 .. L - 1 /\ samples = L * q + r
  <2> HIDE DEF L
  <2>1. q \in Int /\ r \in 0 .. L - 1 /\ samples = L * q + r
    BY <1>1
  <2>2. q >= 0
    BY <1>1
  <2> QED BY <2>1, <2>2
<1>3. more = list \o ([i \in 1 .. q |-> L] \o (IF r = 0 THEN << >> ELSE <<r>>))
  BY DEF append_vgm_wait, Waits
<1> HIDE DEF L, q, r, more
<1> DEFINE last == N + q + (IF r = 0 THEN 0 ELSE 1)
<1>4. /\ more \in CommandLists
      /\ Len(more) = last
      /\ \A n \in 1 .. N : more[n] = list[n]
      /\ \A n \in N + 1 .. N + q : more[n] = L
      /\ r # 0 => more[N + q + 1] = r
  <2> DEFINE S == {WriteCommand} \cup Nat
             long == [i \in 1 .. q |-> L]
             tail == IF r = 0 THEN << >> ELSE <<r>>
  <2>1. list \in Seq(S) /\ long \in Seq(S) /\ tail \in Seq(S) /\ Len(long) = q
    <3>1. L \in S /\ r \in S
      BY <1>1, <1>2
    <3>2. list \in Seq(S)
      BY DEF CommandLists
    <3> HIDE DEF S
    <3>3. tail \in Seq(S)
      BY <3>1
    <3>4. long \in [1 .. q -> S]
      BY <3>1
    <3>5. long \in Seq(S) /\ Len(long) = q
      BY <1>2, <3>4
    <3> QED BY <3>2, <3>3, <3>5
  <2>2. Len(tail) = (IF r = 0 THEN 0 ELSE 1) /\ (r # 0 => tail[1] = r)
    OBVIOUS
  <2>3. \A i \in 1 .. q : long[i] = L
    OBVIOUS
  <2> HIDE DEF S, long, tail
  <2>4. long \o tail \in Seq(S) /\ Len(long \o tail) = q + Len(tail)
        /\ (\A i \in 1 .. q : (long \o tail)[i] = L) /\ (r # 0 => (long \o tail)[q + 1] = r)
    <3>1. /\ long \o tail \in Seq(S) /\ Len(long \o tail) = q + Len(tail)
          /\ \A i \in 1 .. q + Len(tail) :
                (long \o tail)[i] = IF i <= q THEN long[i] ELSE tail[i - q]
      BY <2>1, ConcatProperties
    <3>2. \A i \in 1 .. q : i \in 1 .. q + Len(tail) /\ i <= q
      BY <1>2, <2>2
    <3>3. r # 0 => q + 1 \in 1 .. q + Len(tail) /\ ~(q + 1 <= q) /\ q + 1 - q = 1
      BY <1>2, <2>2
    <3> QED BY <2>2, <2>3, <3>1, <3>2, <3>3
  <2> DEFINE waits == long \o tail
  <2>5. more = list \o waits
    BY <1>3 DEF long, tail
  <2>6. waits \in Seq(S) /\ Len(waits) = q + Len(tail) /\ (\A i \in 1 .. q : waits[i] = L)
        /\ (r # 0 => waits[q + 1] = r)
    BY <2>4
  <2> HIDE DEF waits
  <2>7. /\ list \o waits \in Seq(S) /\ Len(list \o waits) = N + q + Len(tail)
        /\ \A n \in 1 .. N + Len(waits) :
              (list \o waits)[n] = IF n <= N THEN list[n] ELSE waits[n - N]
    <3>1. /\ list \o waits \in Seq(S) /\ Len(list \o waits) = N + Len(waits)
          /\ \A n \in 1 .. N + Len(waits) :
                (list \o waits)[n] = IF n <= N THEN list[n] ELSE waits[n - N]
      BY <2>1, <2>6, ConcatProperties, ZenonT(60)
    <3>2. N + Len(waits) = N + q + Len(tail)
      BY <1>1, <1>2, <2>2, <2>6
    <3> QED BY <3>1, <3>2
  <2>8. \A n \in 1 .. N : (list \o waits)[n] = list[n]
    BY <1>1, <1>2, <2>2, <2>6, <2>7
  <2>9. \A n \in N + 1 .. N + q : (list \o waits)[n] = L
    <3> TAKE n \in N + 1 .. N + q
    <3>1. n - N \in 1 .. q /\ n \in N + 1 .. N + Len(waits)
      BY <1>1, <1>2, <2>2, <2>6
    <3>2. (list \o waits)[n] = waits[n - N]
      BY <1>1, <1>2, <2>2, <2>6, <2>7, <3>1
    <3> QED BY <2>6, <3>1, <3>2
  <2>10. ASSUME r # 0 PROVE (list \o waits)[N + q + 1] = r
    <3>1. N + q + 1 \in N + 1 .. N + Len(waits) /\ N + q + 1 - N = q + 1
      BY <1>1, <1>2, <2>2, <2>6, <2>10
    <3>2. (list \o waits)[N + q + 1] = waits[N + q + 1 - N]
      BY <1>1, <1>2, <2>2, <2>6, <2>7, <3>1
    <3> QED BY <2>6, <2>10, <3>1, <3>2
  <2> QED BY <2>2, <2>5, <2>7, <2>8, <2>9, <2>10 DEF S, CommandLists
<1> HIDE DEF last
<1>5. \A n \in N + 1 .. last : more[n] \in 1 .. L
  <2> TAKE n \in N + 1 .. last
  <2>1. n \in N + 1 .. N + q \/ (r # 0 /\ n = N + q + 1)
    BY <1>1, <1>2 DEF last
  <2> QED BY <1>1, <1>2, <1>4, <2>1
<1>6. N <= last /\ N + q \in 0 .. last /\ last \in Nat
  BY <1>1, <1>2 DEF last
<1>7. Waited(more, N) = Waited(list, N) /\ Waited(list, N) \in Nat
  <2>1. N \in 0 .. N
    BY <1>1
  <2>2. \A n \in 0 .. N : Waited(more, n) = Waited(list, n)
    BY <1>4, <1>6, WaitedSame
  <2> QED BY <2>1, <2>2, WaitedIs
<1> DEFINE T == {i \in 0 .. q : Waited(more, N + i) = Waited(list, N) + L * i}
<1>8. 0 \in T
  BY <1>1, <1>2, <1>7
<1>9. ASSUME NEW i \in 0 .. q - 1, i \in T PROVE i + 1 \in T
  <2> DEFINE m == N + (i + 1)
  <2>1. m \in N + 1 .. N + q /\ m \in 1 .. last /\ m - 1 = N + i
    BY <1>1, <1>2 DEF last
  <2> HIDE DEF m
  <2>2. Waited(more, m) = Waited(more, m - 1) + Value(more[m])
    BY <1>4, <2>1, WaitedIs
  <2>3. more[m] = L /\ Value(L) = L
    BY <1>1, <1>4, <2>1 DEF Value, WriteCommand
  <2>4. Waited(more, N + i) = Waited(list, N) + L * i
    BY <1>9
  <2>5. L * (i + 1) = L * i + L /\ L * i \in Int
    BY <1>1
  <2>6. Waited(more, m) = Waited(list, N) + L * (i + 1)
    BY <1>1, <1>7, <2>1, <2>2, <2>3, <2>4, <2>5
  <2>7. i + 1 \in 0 .. q
    BY <1>2
  <2> QED BY <2>6, <2>7 DEF m
<1>10. Waited(more, N + q) = Waited(list, N) + L * q
  <2> HIDE DEF T
  <2>1. 0 .. q \subseteq T
    BY ONLY <1>2, <1>8, <1>9, UpTo
  <2> QED BY <1>2, <2>1 DEF T
<1>11. Waited(more, last) = Waited(list, N) + samples
  <2>1. CASE r = 0
    <3>1. last = N + q /\ L * q + r = L * q
      BY <1>1, <1>2, <2>1 DEF last
    <3> QED BY <1>2, <1>10, <3>1
  <2>2. CASE r # 0
    <3>1. last = N + q + 1 /\ last \in 1 .. last /\ last - 1 = N + q
      BY <1>1, <1>2, <1>6, <2>2 DEF last
    <3>2. Waited(more, last) = Waited(more, last - 1) + Value(more[last])
      BY <1>4, <3>1, WaitedIs
    <3>3. more[last] = r /\ Value(r) = r
      BY <1>2, <1>4, <2>2, <3>1 DEF Value, WriteCommand
    <3>4. L * q \in Int /\ r \in Int
      BY <1>1, <1>2
    <3> QED BY <1>2, <1>7, <1>10, <3>1, <3>2, <3>3, <3>4
  <2> QED BY <2>1, <2>2
<1> QED BY <1>4, <1>5, <1>6, <1>11 DEF L, more

-----------------------------------------------------------------------------
(* The file *)

\* A later cycle has no earlier sample.
LEMMA TargetIs ==
    ASSUME NEW a \in Nat, NEW b \in Nat, a <= b
    PROVE  TargetSamples(a) \in Nat /\ TargetSamples(b) \in Nat /\ TargetSamples(a) <= TargetSamples(b)
<1> DEFINE d == Clock
           x == a * SampleRate
           y == b * SampleRate
<1>1. d \in Nat \ {0} /\ x \in Nat /\ y \in Nat /\ x <= y
  <2>1. SampleRate \in Nat /\ d \in Nat \ {0}
    BY HeadlessAssumption DEF HeadlessAssumption
  <2>2. x \in Nat /\ y \in Nat /\ (b - a) * SampleRate \in Nat
    <3>1. b - a \in Nat
      OBVIOUS
    <3>2. \A m, n \in Nat : m * n \in Nat
      OBVIOUS
    <3> QED BY <2>1, <3>1, <3>2
  <2>3. y = x + (b - a) * SampleRate
    BY <2>1
  <2> HIDE DEF x, y
  <2> QED BY <2>1, <2>2, <2>3
<1>2. TargetSamples(a) = x \div d /\ TargetSamples(b) = y \div d
  BY DEF TargetSamples
<1> HIDE DEF d, x, y
<1> DEFINE p == x \div d
           q == y \div d
<1>3. p \in Int /\ x % d \in 0 .. d - 1 /\ x = d * p + (x % d)
  BY <1>1
<1>4. q \in Int /\ y % d \in 0 .. d - 1 /\ y = d * q + (y % d)
  BY <1>1
<1>5. p >= 0 /\ q >= 0
  BY <1>1
<1> DEFINE r == x % d
           t == y % d
<1> HIDE DEF p, q, r, t
<1>6. p <= q
  <2> SUFFICES ASSUME p >= q + 1 PROVE FALSE
    BY <1>3, <1>4 DEF p, q
  <2>1. p \in Int /\ q \in Int /\ r \in 0 .. d - 1 /\ t \in 0 .. d - 1 /\ x = d * p + r /\ y = d * q + t
    BY <1>3, <1>4 DEF p, q, r, t
  <2>2. d * p >= d * (q + 1)
    <3>1. p - (q + 1) \in Nat /\ d \in Nat
      BY <1>1, <2>1
    <3>2. d * (p - (q + 1)) >= 0
      BY <3>1
    <3>3. d * (p - (q + 1)) = d * p - d * (q + 1) /\ d * p \in Int /\ d * (q + 1) \in Int
      BY <1>1, <2>1
    <3> QED BY <3>2, <3>3
  <2>3. d * (q + 1) = d * q + d /\ d * q \in Int /\ d * p \in Int
    BY <1>1, <2>1
  <2> QED BY <1>1, <2>1, <2>2, <2>3
<1> QED BY <1>2, <1>3, <1>4, <1>5, <1>6 DEF p, q

WritesIn(list) == {n \in DOMAIN list : list[n] = WriteCommand}

\* A file that so far holds `done` writes, each in its sample.
Timed(list, done, emitted) ==
    /\ list \in CommandLists
    /\ \A n \in DOMAIN list : list[n] <= LongestWait
    /\ Waited(list, Len(list)) = emitted
    /\ Cardinality(WritesIn(list)) = done
    /\ \A n \in WritesIn(list) :
          LET k == CountTo(WritesIn(list), n)
          IN  k \in 1 .. done /\ Waited(list, n - 1) = TargetSamples(writes[k])

\* Waiting adds no write.
LEMMA TimedWait ==
    ASSUME NEW list, NEW done \in Nat, NEW emitted, NEW samples \in Nat, Timed(list, done, emitted)
    PROVE  Timed(append_vgm_wait(list, samples), done, emitted + samples)
<1> DEFINE more == append_vgm_wait(list, samples)
<1>1. /\ list \in CommandLists /\ more \in CommandLists /\ Len(list) <= Len(more)
      /\ \A n \in 1 .. Len(list) : more[n] = list[n]
      /\ \A n \in Len(list) + 1 .. Len(more) : more[n] \in 1 .. LongestWait
      /\ Waited(more, Len(more)) = emitted + samples
  BY WaitsAddUp DEF Timed
<1> HIDE DEF more
<1>2. /\ DOMAIN list = 1 .. Len(list) /\ DOMAIN more = 1 .. Len(more)
      /\ Len(list) \in Nat /\ Len(more) \in Nat /\ LongestWait \in Nat
  BY <1>1, HeadlessAssumption DEF CommandLists, HeadlessAssumption
<1>3. \A n : n \in 1 .. Len(more) <=> n \in 1 .. Len(list) \/ n \in Len(list) + 1 .. Len(more)
  BY <1>1, <1>2
<1>4. \A n \in Len(list) + 1 .. Len(more) : more[n] # WriteCommand /\ more[n] <= LongestWait
  BY <1>1, <1>2 DEF WriteCommand
<1>5. WritesIn(more) = WritesIn(list)
  BY <1>1, <1>2, <1>3, <1>4 DEF WritesIn
<1>6. \A n \in DOMAIN more : more[n] <= LongestWait
  BY <1>1, <1>2, <1>3, <1>4 DEF Timed
<1>7. \A n \in WritesIn(list) : Waited(more, n - 1) = Waited(list, n - 1)
  <2> TAKE n \in WritesIn(list)
  <2>1. n - 1 \in 0 .. Len(list)
    BY <1>2 DEF WritesIn
  <2> QED BY <1>1, <2>1, WaitedSame
<1> QED BY <1>1, <1>5, <1>6, <1>7 DEF Timed, more

\* A write in its sample.
LEMMA TimedWrite ==
    ASSUME NEW list, NEW done \in Nat, NEW emitted, Timed(list, done, emitted),
           emitted = TargetSamples(writes[done + 1])
    PROVE  Timed(Append(list, WriteCommand), done + 1, emitted)
<1> DEFINE more == Append(list, WriteCommand)
           N == Len(list)
           old == WritesIn(list)
           new == WritesIn(more)
<1>1. list \in CommandLists /\ N \in Nat /\ DOMAIN list = 1 .. N
  BY DEF Timed, CommandLists
<1>2. /\ more \in CommandLists /\ Len(more) = N + 1 /\ DOMAIN more = 1 .. N + 1
      /\ \A n \in 1 .. N : more[n] = list[n]
      /\ more[N + 1] = WriteCommand
  <2> DEFINE S == {WriteCommand} \cup Nat
  <2> HIDE DEF S
  <2>1. list \in Seq(S) /\ WriteCommand \in S
    BY <1>1 DEF CommandLists, S
  <2>2. /\ Append(list, WriteCommand) \in Seq(S)
        /\ Len(Append(list, WriteCommand)) = Len(list) + 1
        /\ \A i \in 1 .. Len(list) : Append(list, WriteCommand)[i] = list[i]
        /\ Append(list, WriteCommand)[Len(list) + 1] = WriteCommand
    BY <2>1, AppendProperties
  <2>3. DOMAIN Append(list, WriteCommand) = 1 .. Len(Append(list, WriteCommand))
    BY <2>2
  <2> QED BY <2>2, <2>3 DEF CommandLists, S
<1> HIDE DEF more, N
<1>3. \A n : n \in 1 .. N + 1 <=> n \in 1 .. N \/ n = N + 1
  BY <1>1
<1>4. new = old \cup {N + 1} /\ N + 1 \notin old /\ old \in SUBSET (1 .. N) /\ new \in SUBSET (1 .. N + 1)
  <2>1. N + 1 \notin 1 .. N
    BY <1>1
  <2> QED BY <1>1, <1>2, <1>3, <2>1 DEF WritesIn
<1>5. \A n \in 1 .. N : CountTo(new, n) = CountTo(old, n)
  <2> TAKE n \in 1 .. N
  <2>1. ~(N + 1 <= n)
    BY <1>1
  <2>2. {i \in new : i <= n} = {i \in old : i <= n}
    BY <1>4, <2>1
  <2> QED BY <2>2 DEF CountTo
<1>6. CountTo(new, N + 1) = done + 1 /\ Cardinality(new) = done + 1
  <2>1. CountTo(old, N) = done
    BY <1>1, <1>4, Counted DEF Timed
  <2>2. CountTo(new, N) = done
    <3>1. {i \in new : i <= N} = {i \in old : i <= N}
      <4>1. ~(N + 1 <= N)
        BY <1>1
      <4> QED BY <1>4, <4>1
    <3> QED BY <2>1, <3>1 DEF CountTo
  <2> DEFINE M == N + 1
  <2>3. M \in Nat /\ M \in 1 .. M /\ M - 1 = N /\ new \in SUBSET (1 .. M) /\ M \in new
    BY <1>1, <1>4
  <2> HIDE DEF M, new
  <2>4. CountTo(new, M) = CountTo(new, M - 1) + 1 /\ Cardinality(new) = CountTo(new, M)
    BY <2>3, Counted
  <2> QED BY <2>2, <2>3, <2>4 DEF M
<1>7. \A n \in 0 .. N : Waited(more, n) = Waited(list, n)
  BY <1>1, <1>2, WaitedSame DEF N
<1>8. Waited(more, N) = emitted /\ emitted \in Nat
  <2>1. N \in 0 .. N
    BY <1>1
  <2>2. Waited(list, N) \in Nat
    BY <1>1, <2>1, WaitedIs DEF N
  <2> QED BY <1>7, <2>1, <2>2 DEF Timed, N
<1>9. Waited(more, N + 1) = emitted
  <2> DEFINE M == N + 1
  <2>1. M \in 1 .. Len(more) /\ M - 1 = N /\ more[M] = WriteCommand
    BY <1>1, <1>2
  <2> HIDE DEF M
  <2>2. Waited(more, M) = Waited(more, M - 1) + 0
    BY <1>2, <2>1, WaitedIs DEF Value
  <2> QED BY <1>8, <2>1, <2>2 DEF M
<1>10. \A n \in new :
          CountTo(new, n) \in 1 .. done + 1 /\ Waited(more, n - 1) = TargetSamples(writes[CountTo(new, n)])
  <2> TAKE n \in new
  <2>1. CASE n \in old
    <3>1. n \in 1 .. N /\ n - 1 \in 0 .. N
      BY <1>1, <1>4, <2>1
    <3>2. CountTo(old, n) \in 1 .. done /\ Waited(list, n - 1) = TargetSamples(writes[CountTo(old, n)])
      BY <2>1 DEF Timed
    <3>3. CountTo(old, n) \in 1 .. done + 1
      BY <3>2
    <3> HIDE DEF old, new
    <3> QED BY <1>5, <1>7, <3>1, <3>2, <3>3
  <2>2. CASE n = N + 1
    <3>1. n - 1 = N /\ done + 1 \in 1 .. done + 1
      BY <1>1, <2>2
    <3> QED BY <1>6, <1>8, <2>2, <3>1
  <2> QED BY <1>4, <2>1, <2>2
<1>11. \A n \in DOMAIN more : more[n] <= LongestWait
  <2>1. WriteCommand <= LongestWait
    BY HeadlessAssumption DEF HeadlessAssumption, WriteCommand
  <2> QED BY <1>1, <1>2, <1>3, <2>1 DEF Timed
<1> QED BY <1>2, <1>6, <1>9, <1>10, <1>11 DEF Timed, more

-----------------------------------------------------------------------------
(* The script *)

Inputs == UNION {{text[i].input : i \in DOMAIN text} : text \in Scripts}
Events == [frame : Nat, input : Inputs]

\* Where each event was read.
Places(text, read, list, place) ==
    /\ place \in [1 .. Len(list) -> 1 .. read]
    /\ \A i, j \in 1 .. Len(list) : i < j => place[i] < place[j]
    /\ \A i \in 1 .. Len(list) :
          /\ text[place[i]].kind = "event"
          /\ list[i].frame = text[place[i]].frame
          /\ list[i].input = text[place[i]].input
    /\ \A l \in 1 .. read : text[l].kind = "event" => \E i \in 1 .. Len(list) : place[i] = l

\* The events are those of the lines read, each from its own line.
ScriptRead(text, read, list) ==
    /\ list \in Seq(Events)
    /\ read \in 0 .. Len(text)
    /\ \A i, j \in 1 .. Len(list) : i < j => list[i].frame < list[j].frame
    /\ \E place : Places(text, read, list, place)

\* A script is a list of lines, events among them with a frame and buttons.
LEMMA ScriptIs ==
    ASSUME NEW text \in Scripts
    PROVE  /\ Len(text) \in Nat /\ DOMAIN text = 1 .. Len(text)
           /\ \A i \in 1 .. Len(text) :
                 /\ text[i].kind \in {"comment", "error", "event"}
                 /\ text[i].input \in Inputs
                 /\ text[i].kind = "event" => text[i].frame \in Nat
<1>1. text \in Seq({text[i] : i \in DOMAIN text})
  BY HeadlessAssumption DEF HeadlessAssumption
<1> DEFINE S == {text[i] : i \in DOMAIN text}
<1> HIDE DEF S
<1>2. text \in Seq(S)
  BY <1>1 DEF S
<1>3. Len(text) \in Nat /\ DOMAIN text = 1 .. Len(text)
  BY <1>2
<1>4. \A i \in DOMAIN text : text[i].input \in Inputs
  <2> TAKE i \in DOMAIN text
  <2>1. text[i].input \in {text[j].input : j \in DOMAIN text}
    OBVIOUS
  <2> QED BY <2>1 DEF Inputs
<1>5. \A i \in DOMAIN text : /\ text[i].kind \in {"comment", "error", "event"}
                             /\ text[i].kind = "event" => text[i].frame \in Nat
  BY HeadlessAssumption DEF HeadlessAssumption
<1> QED BY <1>3, <1>4, <1>5

\* A line that is no event adds none.
LEMMA QuietLineRead ==
    ASSUME NEW text \in Scripts, NEW read \in Nat, NEW list, ScriptRead(text, read, list),
           read + 1 <= Len(text), text[read + 1].kind # "event"
    PROVE  ScriptRead(text, read + 1, list)
<1>1. Len(text) \in Nat
  BY ScriptIs
<1>2. PICK place : Places(text, read, list, place)
  BY DEF ScriptRead
<1>3. Places(text, read + 1, list, place)
  <2>1. \A l \in 1 .. read + 1 : l \in 1 .. read \/ l = read + 1
    OBVIOUS
  <2>2. place \in [1 .. Len(list) -> 1 .. read + 1]
    BY <1>2 DEF Places
  <2> QED BY <1>2, <2>1, <2>2 DEF Places
<1>4. read + 1 \in 0 .. Len(text)
  BY <1>1
<1> QED BY <1>3, <1>4 DEF ScriptRead

\* An event later than those before goes to their end.
LEMMA EventRead ==
    ASSUME NEW text \in Scripts, NEW read \in Nat, NEW list, ScriptRead(text, read, list),
           read + 1 <= Len(text), text[read + 1].kind = "event",
           list = << >> \/ ~(text[read + 1].frame <= list[Len(list)].frame)
    PROVE  ScriptRead(text, read + 1, Append(list, [frame |-> text[read + 1].frame, input |-> text[read + 1].input]))
<1> DEFINE new == [frame |-> text[read + 1].frame, input |-> text[read + 1].input]
           more == Append(list, new)
           N == Len(list)
           M == N + 1
<1>1. Len(text) \in Nat /\ read + 1 \in 1 .. Len(text) /\ read + 1 \in 0 .. Len(text)
  BY ScriptIs
<1>2. PICK place : Places(text, read, list, place)
  BY DEF ScriptRead
<1>3. list \in Seq(Events) /\ N \in Nat /\ DOMAIN list = 1 .. N
  BY DEF ScriptRead
<1>4. new \in Events /\ new.frame = text[read + 1].frame /\ new.input = text[read + 1].input
  BY <1>1, ScriptIs DEF Events
<1> HIDE DEF new
<1>5. /\ more \in Seq(Events) /\ Len(more) = M /\ DOMAIN more = 1 .. M
      /\ \A i \in 1 .. N : more[i] = list[i]
      /\ more[M] = new
  BY <1>3, <1>4, AppendProperties
<1> HIDE DEF more
<1> DEFINE put == [i \in 1 .. M |-> IF i = M THEN read + 1 ELSE place[i]]
<1>6. \A i \in 1 .. M : i = M \/ (i \in 1 .. N /\ i # M)
  BY <1>3
<1>7. \A i \in 1 .. N : i \in 1 .. M /\ i # M
  BY <1>3
<1>8. /\ put \in [1 .. M -> 1 .. read + 1]
      /\ put[M] = read + 1
      /\ \A i \in 1 .. N : put[i] = place[i]
  <2>1. M \in 1 .. M
    BY <1>3
  <2>2. \A i \in 1 .. N : place[i] \in 1 .. read + 1
    BY <1>2, <1>3 DEF Places
  <2> HIDE DEF M, N
  <2> QED BY <1>6, <1>7, <2>1, <2>2
<1> HIDE DEF put
<1>9. \A i \in 1 .. N : list[i].frame \in Nat /\ list[i].frame < new.frame
  <2>1. \A i \in 1 .. N : list[i].frame \in Nat
    <3>1. \A i \in 1 .. N : list[i] \in Events
      BY <1>3
    <3> QED BY <3>1 DEF Events
  <2>2. CASE list = << >>
    <3>1. N = 0
      BY <2>2
    <3> QED BY <1>3, <3>1
  <2>3. CASE ~(text[read + 1].frame <= list[Len(list)].frame)
    <3> SUFFICES ASSUME NEW i \in 1 .. N PROVE list[i].frame < new.frame
      BY <2>1
    <3>1. N \in 1 .. N /\ (i = N \/ i < N)
      <4>1. N \in Nat
        BY <1>3
      <4> HIDE DEF N
      <4> QED BY <4>1
    <3>2. list[N].frame < new.frame
      <4>1. list[N].frame \in Nat /\ new.frame \in Nat
        BY <2>1, <3>1, <1>4 DEF Events
      <4> QED BY <1>4, <2>3, <4>1
    <3>3. i < N => list[i].frame < list[N].frame
      BY <1>3, <3>1 DEF ScriptRead
    <3>4. list[i].frame \in Nat /\ list[N].frame \in Nat /\ new.frame \in Nat
      BY <2>1, <3>1, <1>4 DEF Events
    <3> QED BY <3>1, <3>2, <3>3, <3>4
  <2> QED BY <2>2, <2>3
<1>10. ASSUME NEW i \in 1 .. M, NEW j \in 1 .. M, i < j
       PROVE  more[i].frame < more[j].frame /\ put[i] < put[j]
  <2>1. i \in 1 .. N
    BY <1>3, <1>10
  <2>2. CASE j = M
    <3>1. place[i] \in 1 .. read
      BY <1>2, <1>3, <2>1 DEF Places
    <3>2. put[i] < put[j]
      BY <1>8, <2>1, <2>2, <3>1, SMTT(60)
    <3>3. more[i].frame < more[j].frame
      BY <1>5, <1>9, <2>1, <2>2
    <3> QED BY <3>2, <3>3
  <2>3. CASE j \in 1 .. N
    <3>1. list[i].frame < list[j].frame /\ place[i] < place[j]
      BY <1>2, <1>3, <1>10, <2>1, <2>3 DEF ScriptRead, Places
    <3> QED BY <1>5, <1>8, <2>1, <2>3, <3>1
  <2> QED BY <1>6, <2>2, <2>3
<1>11. ASSUME NEW i \in 1 .. M
       PROVE  /\ text[put[i]].kind = "event"
              /\ more[i].frame = text[put[i]].frame
              /\ more[i].input = text[put[i]].input
  <2>1. CASE i = M
    BY <1>4, <1>5, <1>8, <2>1
  <2>2. CASE i \in 1 .. N
    <3>1. more[i] = list[i] /\ put[i] = place[i]
      BY <1>5, <1>8, <2>2
    <3>2. /\ text[place[i]].kind = "event"
          /\ list[i].frame = text[place[i]].frame
          /\ list[i].input = text[place[i]].input
      BY <1>2, <1>3, <2>2 DEF Places
    <3> QED BY <3>1, <3>2
  <2> QED BY <1>6, <2>1, <2>2
<1>12. ASSUME NEW l \in 1 .. read + 1, text[l].kind = "event" PROVE \E i \in 1 .. M : put[i] = l
  <2>1. CASE l = read + 1
    <3>1. M \in 1 .. M
      BY <1>3
    <3> QED BY <1>8, <2>1, <3>1
  <2>2. CASE l \in 1 .. read
    <3>1. PICK i \in 1 .. N : place[i] = l
      BY <1>2, <1>3, <1>12, <2>2 DEF Places
    <3> QED BY <1>7, <1>8, <3>1
  <2> QED BY <2>1, <2>2
<1>13. Places(text, read + 1, more, put)
  <2> HIDE DEF M
  <2> QED BY <1>5, <1>8, <1>10, <1>11, <1>12 DEF Places
<1>14. ScriptRead(text, read + 1, more)
  <2> HIDE DEF M, N
  <2> QED BY <1>1, <1>5, <1>10, <1>13 DEF ScriptRead
<1> QED BY <1>14 DEF more, new

\* What the script says of a frame, with all its lines read.
SaidOf(text, frame) ==
    {i \in DOMAIN text : text[i].kind = "event" /\ text[i].frame <= frame}

\* Looking a frame up in the parsed events gives the script's last word on it.
LEMMA StateFollows ==
    ASSUME script \in Scripts, ScriptRead(script, Len(script), events), NEW frame \in Nat
    PROVE  /\ state_for_frame(frame) \in Inputs \cup {NoButtons}
           /\ state_for_frame(frame) = IF SaidOf(script, frame) = {} THEN NoButtons
                                       ELSE script[Max(SaidOf(script, frame))].input
<1> DEFINE N == Len(events)
           later == {i \in 1 .. N : frame < events[i].frame}
           first == IF later = {} THEN N + 1 ELSE Min(later)
           said == SaidOf(script, frame)
<1>1. /\ events \in Seq(Events) /\ N \in Nat /\ DOMAIN events = 1 .. N
      /\ \A i \in 1 .. N : events[i].frame \in Nat /\ events[i].input \in Inputs
      /\ \A i, j \in 1 .. N : i < j => events[i].frame < events[j].frame
  <2>1. events \in Seq(Events) /\ N \in Nat /\ DOMAIN events = 1 .. N
    BY DEF ScriptRead
  <2>2. \A i \in 1 .. N : events[i] \in Events
    BY <2>1
  <2>3. \A i, j \in 1 .. N : i < j => events[i].frame < events[j].frame
    BY <2>1 DEF ScriptRead
  <2> QED BY <2>1, <2>2, <2>3 DEF Events
<1>2. /\ Len(script) \in Nat /\ DOMAIN script = 1 .. Len(script)
      /\ \A i \in 1 .. Len(script) : script[i].kind = "event" => script[i].frame \in Nat
  BY ScriptIs
<1>3. PICK place : Places(script, Len(script), events, place)
  BY DEF ScriptRead
<1>4. state_for_frame(frame) = IF first = 1 THEN NoButtons ELSE events[first - 1].input
  BY <1>1 DEF state_for_frame
<1> HIDE DEF N
<1>5. first \in 1 .. N + 1 /\ \A i \in 1 .. N : i < first <=> events[i].frame <= frame
  <2>1. CASE later = {}
    <3>1. \A i \in 1 .. N : ~(frame < events[i].frame)
      BY <2>1
    <3>2. first = N + 1
      BY <2>1
    <3>3. \A i \in 1 .. N : events[i].frame <= frame /\ i < N + 1
      BY <1>1, <3>1
    <3> QED BY <1>1, <3>2, <3>3
  <2>2. CASE later # {}
    <3>1. later \in SUBSET Nat
      OBVIOUS
    <3> HIDE DEF later
    <3>2. \E n \in later : \A k \in later : n <= k
      BY <2>2, <3>1, LeastOne
    <3>3. Min(later) \in later /\ \A k \in later : Min(later) <= k
      BY <3>2 DEF Min
    <3>4. first \in 1 .. N /\ frame < events[first].frame /\ \A k \in 1 .. N : frame < events[k].frame => first <= k
      BY <2>2, <3>3 DEF later
    <3> HIDE DEF first
    <3>5. ASSUME NEW i \in 1 .. N PROVE i < first <=> events[i].frame <= frame
      <4>1. events[i].frame \in Nat /\ events[first].frame \in Nat /\ i \in Nat /\ first \in Nat
        BY <1>1, <3>4
      <4>2. i = first \/ i < first \/ first < i
        BY <4>1
      <4>3. first < i => events[first].frame < events[i].frame
        BY <1>1, <3>4
      <4> QED BY <3>4, <4>1, <4>2, <4>3
    <3> QED BY <1>1, <3>4, <3>5
  <2> QED BY <2>1, <2>2
<1> HIDE DEF first, later
<1>6. \A l : l \in said <=> \E i \in 1 .. N : place[i] = l /\ i < first
  <2>1. ASSUME NEW i \in 1 .. N PROVE place[i] \in said <=> i < first
    BY <1>2, <1>3, <1>5 DEF SaidOf, Places, N
  <2>2. \A l \in said : \E i \in 1 .. N : place[i] = l
    BY <1>2, <1>3 DEF SaidOf, Places, N
  <2> HIDE DEF said
  <2> QED BY <2>1, <2>2
<1> HIDE DEF said
<1>7. CASE first = 1
  <2>1. said = {}
    <3>1. \A i \in 1 .. N : ~(i < first)
      BY <1>1, <1>7
    <3> QED BY <1>6, <3>1
  <2> QED BY <1>4, <1>7, <2>1 DEF said
<1>8. CASE first # 1
  <2> DEFINE last == first - 1
  <2>1. last \in 1 .. N /\ last < first /\ \A i \in 1 .. N : i < first => i = last \/ i < last
    BY <1>1, <1>5, <1>8
  <2> HIDE DEF last
  <2>2. place[last] \in said /\ \A l \in said : l <= place[last]
    <3>1. \A i \in 1 .. N : place[i] \in Nat
      BY <1>3 DEF Places, N
    <3>2. \A i \in 1 .. N : i < first => place[i] <= place[last]
      BY <1>3, <2>1, <3>1 DEF Places, N
    <3> QED BY <1>6, <2>1, <3>2
  <2>3. Max(said) = place[last]
    <3>1. \A l \in said : l \in Nat
      BY <1>2 DEF said, SaidOf
    <3>2. \A l \in said : (\A k \in said : l >= k) => l = place[last]
      BY <2>2, <3>1
    <3>3. \A l \in said : place[last] >= l
      BY <2>2, <3>1
    <3> QED BY <2>2, <3>2, <3>3 DEF Max
  <2>4. state_for_frame(frame) = events[last].input
    BY <1>4, <1>8 DEF last
  <2> QED BY <1>1, <1>3, <2>1, <2>2, <2>3, <2>4 DEF said, Places, N
<1> QED BY <1>7, <1>8

-----------------------------------------------------------------------------
(* The run *)

Stages == {"parse", "failed", "frames", "writing", "written"}

\* The script is read up to the next line; a run that goes on has read all.
ReadInv ==
    /\ script \in Scripts /\ next_line \in Nat \ {0}
    /\ run_stage # "failed" => ScriptRead(script, next_line - 1, events)
    /\ run_stage \in {"frames", "writing", "written"} => next_line - 1 = Len(script)

\* Every frame so far ran under what the script says of it.
InputInv ==
    /\ inputs \in Seq(Inputs \cup {NoButtons})
    /\ run_stage \in {"parse", "failed"} => inputs = << >>
    /\ \A n \in 1 .. Len(inputs) : inputs[n] = state_for_frame(n - 1)

\* The writes are in the order of their cycles.
WriteInv ==
    /\ now \in Nat /\ writes \in Seq(Nat)
    /\ \A i, j \in 1 .. Len(writes) : i <= j => writes[i] <= writes[j]
    /\ \A i \in 1 .. Len(writes) : writes[i] <= now

\* The file holds the writes before the next one, and has come to the last.
FileInv ==
    /\ next_write \in 1 .. Len(writes) + 1
    /\ Timed(commands, next_write - 1, emitted_samples)
    /\ run_stage \in {"parse", "failed", "frames"} =>
          commands = << >> /\ next_write = 1 /\ emitted_samples = 0
    /\ run_stage # "written" =>
          emitted_samples = IF next_write = 1 THEN 0 ELSE TargetSamples(writes[next_write - 1])
    /\ run_stage = "written" =>
          next_write = Len(writes) + 1 /\ emitted_samples = TargetSamples(now)

HeadlessInv == run_stage \in Stages /\ ReadInv /\ InputInv /\ WriteInv /\ FileInv

\* Nothing is written yet.
LEMMA NothingTimed == Timed(<< >>, 0, 0)
<1>1. << >> \in CommandLists /\ Len(<< >>) = 0 /\ DOMAIN << >> = {}
  BY DEF CommandLists
<1>2. Waited(<< >>, 0) = 0
  BY <1>1, WaitedIs
<1>3. WritesIn(<< >>) = {}
  BY <1>1 DEF WritesIn
<1>4. Cardinality({}) = 0
  BY FS_EmptySet
<1> QED BY <1>1, <1>2, <1>3, <1>4 DEF Timed

\* Nothing is read, run or written at the start.
LEMMA HeadlessStarts == HeadlessInit => HeadlessInv
<1> SUFFICES ASSUME HeadlessInit PROVE HeadlessInv
  OBVIOUS
<1>1. /\ script \in Scripts /\ next_line = 1 /\ events = << >> /\ run_stage = "parse"
      /\ inputs = << >> /\ now = 0 /\ writes = << >>
      /\ next_write = 1 /\ commands = << >> /\ emitted_samples = 0
  BY DEF HeadlessInit
<1>2. ScriptRead(script, 0, events)
  <2>1. Len(script) \in Nat /\ events \in Seq(Events) /\ Len(events) = 0
    BY <1>1, ScriptIs
  <2>2. Places(script, 0, events, << >>)
    BY <1>1, <2>1 DEF Places
  <2> QED BY <2>1, <2>2 DEF ScriptRead
<1>3. ReadInv
  BY <1>1, <1>2 DEF ReadInv
<1>4. InputInv /\ WriteInv
  BY <1>1 DEF InputInv, WriteInv
<1>5. FileInv
  BY <1>1, NothingTimed DEF FileInv
<1> QED BY <1>1, <1>3, <1>4, <1>5 DEF HeadlessInv, Stages

\* What only depends on the writes and on the file stays while they do.
LEMMA FileKept ==
    ASSUME FileInv, UNCHANGED <<writes, next_write, commands, emitted_samples, now>>,
           \/ run_stage' = run_stage
           \/ run_stage \in {"parse", "frames"} /\ run_stage' \in {"failed", "frames", "writing"}
    PROVE  FileInv'
<1>1. \A n : TargetSamples(n)' = TargetSamples(n')
  BY DEF TargetSamples
<1>2. \A list, done, emitted : Timed(list, done, emitted)' <=> Timed(list', done', emitted')
  BY DEF Timed
<1> QED BY <1>1, <1>2 DEF FileInv

\* A line of the script is read.
LEMMA ParseStep == HeadlessInv /\ ParseLine => HeadlessInv'
<1> SUFFICES ASSUME HeadlessInv, ParseLine PROVE HeadlessInv'
  OBVIOUS
<1> DEFINE spoken == script[next_line]
           new == [frame |-> spoken.frame, input |-> spoken.input]
           late == spoken.kind = "event" /\ events # << >> /\ spoken.frame <= events[Len(events)].frame
<1>1. /\ run_stage = "parse" /\ next_line <= Len(script) /\ next_line' = next_line + 1
      /\ UNCHANGED <<script, inputs, now, writes, next_write, commands, emitted_samples>>
      /\ script \in Scripts /\ next_line \in Nat \ {0}
      /\ ScriptRead(script, next_line - 1, events)
  BY DEF ParseLine, HeadlessInv, ReadInv
<1>2. spoken.kind \in {"comment", "error", "event"}
  BY <1>1, ScriptIs
<1>3. \/ spoken.kind = "comment" /\ UNCHANGED <<events, run_stage>>
      \/ (spoken.kind = "error" \/ late) /\ run_stage' = "failed" /\ UNCHANGED events
      \/ spoken.kind = "event" /\ ~late /\ events' = Append(events, new) /\ UNCHANGED run_stage
  BY <1>2 DEF ParseLine
<1>4. run_stage' \in {"parse", "failed"}
  BY <1>1, <1>3
<1>5. next_line - 1 \in Nat /\ next_line - 1 + 1 = next_line /\ next_line' - 1 = next_line
      /\ next_line' \in Nat \ {0}
  BY <1>1
<1>6. run_stage' # "failed" => ScriptRead(script, next_line, events')
  <2> DEFINE read == next_line - 1
  <2>1. read \in Nat /\ read + 1 = next_line
    BY <1>5
  <2> HIDE DEF read
  <2>2. ScriptRead(script, read, events)
    BY <1>1 DEF read
  <2>3. CASE spoken.kind = "comment"
    <3>1. ScriptRead(script, read + 1, events)
      BY <1>1, <2>1, <2>2, <2>3, QuietLineRead
    <3> QED BY <1>3, <2>1, <2>3, <3>1
  <2>4. CASE spoken.kind = "event" /\ ~late /\ events' = Append(events, new)
    <3>1. events = << >> \/ ~(spoken.frame <= events[Len(events)].frame)
      BY <2>4
    <3>2. ScriptRead(script, read + 1, Append(events, new))
      BY <1>1, <2>1, <2>2, <2>4, <3>1, EventRead
    <3> QED BY <2>1, <2>4, <3>2
  <2> QED BY <1>3, <2>3, <2>4
<1>7. ReadInv'
  BY <1>1, <1>4, <1>5, <1>6 DEF ReadInv
<1>8. InputInv' /\ WriteInv'
  <2>1. inputs = << >>
    BY <1>1 DEF HeadlessInv, InputInv
  <2> QED BY <1>1, <2>1 DEF HeadlessInv, InputInv, WriteInv
<1>9. FileInv'
  BY <1>1, <1>3, FileKept DEF HeadlessInv
<1> QED BY <1>4, <1>7, <1>8, <1>9 DEF HeadlessInv, Stages

\* From parsing to running and from running to writing.
LEMMA StageSteps == HeadlessInv /\ (ScriptParsed \/ FramesRun) => HeadlessInv'
<1> SUFFICES ASSUME HeadlessInv, ScriptParsed \/ FramesRun PROVE HeadlessInv'
  OBVIOUS
<1>1. /\ UNCHANGED <<parser, inputs, now, writes, next_write, commands, emitted_samples>>
      /\ run_stage \in {"parse", "frames"} /\ run_stage' \in {"frames", "writing"}
  BY DEF ScriptParsed, FramesRun
<1>2. FileInv'
  BY <1>1, FileKept DEF HeadlessInv
<1>3. ReadInv'
  <2>1. next_line - 1 = Len(script)
    <3>1. CASE ScriptParsed
      <4>1. next_line > Len(script) /\ ScriptRead(script, next_line - 1, events) /\ script \in Scripts
            /\ next_line \in Nat \ {0}
        BY <3>1 DEF ScriptParsed, HeadlessInv, ReadInv
      <4>2. next_line - 1 \in 0 .. Len(script) /\ Len(script) \in Nat
        BY <4>1, ScriptIs DEF ScriptRead
      <4> QED BY <4>1, <4>2
    <3>2. CASE FramesRun
      BY <3>2 DEF FramesRun, HeadlessInv, ReadInv
    <3> QED BY <3>1, <3>2
  <2> QED BY <1>1, <2>1 DEF HeadlessInv, ReadInv, parser
<1>4. InputInv'
  <2>1. \A n : state_for_frame(n)' = state_for_frame(n)
    BY <1>1 DEF state_for_frame, parser
  <2>2. inputs' = inputs
    BY <1>1
  <2> QED BY <1>1, <2>1, <2>2 DEF HeadlessInv, InputInv
<1>5. WriteInv'
  BY <1>1 DEF HeadlessInv, WriteInv
<1> QED BY <1>1, <1>2, <1>3, <1>4, <1>5 DEF HeadlessInv, Stages

\* Cycles in their order, from the first of a frame to its last.
Within(list, first, last) ==
    /\ list \in Seq(Nat)
    /\ \A i, j \in 1 .. Len(list) : i <= j => list[i] <= list[j]
    /\ \A i \in 1 .. Len(list) : first <= list[i] /\ list[i] <= last

\* The writes of a frame come after those of the frames before.
LEMMA WritesOrdered ==
    ASSUME NEW list \in Seq(Nat), NEW past \in Nat, NEW length \in Nat,
           NEW more, Within(more, past, past + length),
           \A i, j \in 1 .. Len(list) : i <= j => list[i] <= list[j],
           \A i \in 1 .. Len(list) : list[i] <= past
    PROVE  /\ list \o more \in Seq(Nat)
           /\ \A i, j \in 1 .. Len(list \o more) : i <= j => (list \o more)[i] <= (list \o more)[j]
           /\ \A i \in 1 .. Len(list \o more) : (list \o more)[i] <= past + length
<1> DEFINE all == list \o more
           N == Len(list)
           M == Len(more)
<1>0. /\ more \in Seq(Nat)
      /\ \A i, j \in 1 .. M : i <= j => more[i] <= more[j]
      /\ \A i \in 1 .. M : past <= more[i] /\ more[i] <= past + length
  BY DEF Within
<1>1. /\ all \in Seq(Nat) /\ Len(all) = N + M
      /\ \A i \in 1 .. N + M : all[i] = IF i <= N THEN list[i] ELSE more[i - N]
  BY <1>0, ConcatProperties
<1>2. N \in Nat /\ M \in Nat /\ (\A i \in 1 .. N : list[i] \in Nat) /\ (\A i \in 1 .. M : more[i] \in Nat)
  BY <1>0, ElementOfSeq
<1> HIDE DEF all
<1>3. \A i \in 1 .. N + M :
         \/ i \in 1 .. N /\ all[i] = list[i]
         \/ i - N \in 1 .. M /\ ~(i <= N) /\ all[i] = more[i - N]
  BY <1>1, <1>2
<1>4. \A i \in 1 .. N + M : all[i] \in Nat /\ all[i] <= past + length
  <2> TAKE i \in 1 .. N + M
  <2>1. CASE i \in 1 .. N /\ all[i] = list[i]
    <3>1. list[i] \in Nat /\ list[i] <= past
      BY <1>2, <2>1
    <3> QED BY <2>1, <3>1
  <2>2. CASE i - N \in 1 .. M /\ all[i] = more[i - N]
    BY <1>0, <1>2, <2>2
  <2> QED BY <1>3, <2>1, <2>2
<1>5. ASSUME NEW i \in 1 .. N + M, NEW j \in 1 .. N + M, i <= j PROVE all[i] <= all[j]
  <2>1. CASE i \in 1 .. N /\ j \in 1 .. N /\ all[i] = list[i] /\ all[j] = list[j]
    BY <1>5, <2>1
  <2>2. CASE i \in 1 .. N /\ all[i] = list[i] /\ j - N \in 1 .. M /\ all[j] = more[j - N]
    <3>1. list[i] \in Nat /\ list[i] <= past /\ past <= more[j - N] /\ more[j - N] \in Nat
      BY <1>0, <1>2, <2>2
    <3> QED BY <2>2, <3>1
  <2>3. CASE i - N \in 1 .. M /\ all[i] = more[i - N] /\ j - N \in 1 .. M /\ all[j] = more[j - N]
    <3>1. i - N <= j - N
      BY <1>2, <1>5
    <3> QED BY <1>0, <2>3, <3>1
  <2>4. ~(~(i <= N) /\ j \in 1 .. N)
    BY <1>2, <1>5
  <2> QED BY <1>3, <2>1, <2>2, <2>3, <2>4
<1> QED BY <1>1, <1>4, <1>5 DEF all

\* A frame runs with the script's input and its writes are captured in order.
LEMMA FrameStep == HeadlessInv /\ RunHeadlessFrame => HeadlessInv'
<1> SUFFICES ASSUME HeadlessInv, RunHeadlessFrame PROVE HeadlessInv'
  OBVIOUS
<1>1. /\ run_stage = "frames" /\ inputs' = Append(inputs, state_for_frame(Len(inputs)))
      /\ now' = now + FrameLength
      /\ UNCHANGED <<parser, run_stage, next_write, commands, emitted_samples>>
  BY DEF RunHeadlessFrame
<1>2. /\ next_line - 1 = Len(script) /\ script \in Scripts /\ ScriptRead(script, Len(script), events)
      /\ inputs \in Seq(Inputs \cup {NoButtons}) /\ Len(inputs) \in Nat
      /\ \A n \in 1 .. Len(inputs) : inputs[n] = state_for_frame(n - 1)
  BY <1>1 DEF HeadlessInv, ReadInv, InputInv
<1>3. \A n : state_for_frame(n)' = state_for_frame(n)
  BY <1>1 DEF state_for_frame, parser
<1>4. state_for_frame(Len(inputs)) \in Inputs \cup {NoButtons}
  BY <1>2, StateFollows
<1>5. InputInv'
  <2> DEFINE N == Len(inputs)
             input == state_for_frame(N)
  <2>1. /\ inputs' \in Seq(Inputs \cup {NoButtons}) /\ Len(inputs') = N + 1
        /\ \A n \in 1 .. N : inputs'[n] = inputs[n]
        /\ inputs'[N + 1] = input
    BY <1>1, <1>2, <1>4, AppendProperties
  <2>2. N \in Nat
    BY <1>2
  <2> HIDE DEF N
  <2>3. ASSUME NEW n \in 1 .. N + 1 PROVE inputs'[n] = state_for_frame(n - 1)
    <3>1. CASE n = N + 1
      <4>1. n - 1 = N
        BY <2>2, <3>1
      <4> QED BY <2>1, <3>1, <4>1
    <3>2. CASE n \in 1 .. N
      BY <1>2, <2>1, <3>2 DEF N
    <3> QED BY <2>2, <3>1, <3>2
  <2> QED BY <1>1, <1>3, <2>1, <2>3 DEF InputInv
<1>6. ReadInv'
  BY <1>1 DEF HeadlessInv, ReadInv, parser
<1>7. \E more : writes' = writes \o more /\ Within(more, now, now + FrameLength)
  <2>1. now \in Nat /\ writes \in Seq(Nat) /\ FrameLength \in Nat /\ Ticks \subseteq Nat
    BY HeadlessAssumption DEF HeadlessAssumption, HeadlessInv, WriteInv
  <2>2. PICK first \in Ticks, second \in Ticks :
          \/ writes' = writes
          \/ first < FrameLength /\ writes' = Append(writes, now + first)
          \/ first + second < FrameLength /\ writes' = writes \o <<now + first, now + first + second>>
    BY DEF RunHeadlessFrame
  <2>3. first \in Nat /\ second \in Nat
    BY <2>1
  <2>4. CASE writes' = writes
    <3>1. writes \o << >> = writes /\ << >> \in Seq(Nat) /\ Len(<< >>) = 0
      BY <2>1, ConcatEmptySeq
    <3> DEFINE more == << >>
    <3>2. Within(more, now, now + FrameLength) /\ writes' = writes \o more
      BY <2>4, <3>1 DEF Within
    <3> HIDE DEF more
    <3> QED BY <3>2
  <2>5. CASE first < FrameLength /\ writes' = Append(writes, now + first)
    <3> DEFINE more == <<now + first>>
    <3>1. more \in Seq(Nat) /\ Len(more) = 1 /\ more[1] = now + first
      BY <2>1, <2>3
    <3>2. writes' = writes \o more
      BY <2>1, <2>3, <2>5, AppendIsConcat
    <3> HIDE DEF more
    <3>3. \A i \in 1 .. Len(more) : i = 1
      BY <3>1
    <3>4. Within(more, now, now + FrameLength)
      BY <2>1, <2>3, <2>5, <3>1, <3>3 DEF Within
    <3> QED BY <3>2, <3>4
  <2>6. CASE first + second < FrameLength /\ writes' = writes \o <<now + first, now + first + second>>
    <3> DEFINE more == <<now + first, now + first + second>>
    <3>1. more \in Seq(Nat) /\ Len(more) = 2 /\ more[1] = now + first /\ more[2] = now + first + second
      BY <2>1, <2>3
    <3>2. writes' = writes \o more
      BY <2>6
    <3> HIDE DEF more
    <3>3. \A i \in 1 .. Len(more) : i = 1 \/ i = 2
      BY <3>1
    <3>4. Within(more, now, now + FrameLength)
      BY <2>1, <2>3, <2>6, <3>1, <3>3 DEF Within
    <3> QED BY <3>2, <3>4
  <2> QED BY <2>2, <2>4, <2>5, <2>6
<1>8. WriteInv'
  <2>1. PICK more : writes' = writes \o more /\ Within(more, now, now + FrameLength)
    BY <1>7
  <2>2. /\ now \in Nat /\ FrameLength \in Nat /\ writes \in Seq(Nat)
        /\ \A i, j \in 1 .. Len(writes) : i <= j => writes[i] <= writes[j]
        /\ \A i \in 1 .. Len(writes) : writes[i] <= now
    BY HeadlessAssumption DEF HeadlessAssumption, HeadlessInv, WriteInv
  <2>3. /\ writes \o more \in Seq(Nat)
        /\ \A i, j \in 1 .. Len(writes \o more) : i <= j => (writes \o more)[i] <= (writes \o more)[j]
        /\ \A i \in 1 .. Len(writes \o more) : (writes \o more)[i] <= now + FrameLength
    BY <2>1, <2>2, WritesOrdered
  <2>4. now' \in Nat /\ now' = now + FrameLength
    BY <1>1, <2>2
  <2> QED BY <2>1, <2>3, <2>4 DEF WriteInv
<1>9. FileInv'
  <2>1. commands = << >> /\ next_write = 1 /\ emitted_samples = 0
    BY <1>1 DEF HeadlessInv, FileInv
  <2>2. Len(writes') \in Nat
    BY <1>8 DEF WriteInv
  <2>3. Timed(<< >>, 0, 0)'
    BY NothingTimed, PTL
  <2>4. Timed(commands, next_write - 1, emitted_samples)'
    BY <1>1, <2>1, <2>3
  <2> QED BY <1>1, <2>1, <2>2, <2>4 DEF FileInv
<1> QED BY <1>1, <1>5, <1>6, <1>8, <1>9 DEF HeadlessInv, Stages

\* Waiting for a cycle brings the file to its sample.
LEMMA WaitTo ==
    ASSUME NEW cycle \in Nat, emitted_samples \in Nat, emitted_samples <= TargetSamples(cycle)
    PROVE  WaitBefore(cycle) \in Nat /\ emitted_samples + WaitBefore(cycle) = TargetSamples(cycle)
<1>1. TargetSamples(cycle) \in Nat
  BY TargetIs
<1> QED BY <1>1 DEF WaitBefore

\* The file is never ahead of a write to come.
LEMMA NotAhead ==
    ASSUME WriteInv, FileInv, run_stage # "written", NEW cycle \in Nat,
           next_write # 1 => writes[next_write - 1] <= cycle
    PROVE  emitted_samples \in Nat /\ emitted_samples <= TargetSamples(cycle)
<1>1. CASE next_write = 1
  <2>1. emitted_samples = 0 /\ TargetSamples(cycle) \in Nat
    BY <1>1, TargetIs DEF FileInv
  <2> QED BY <2>1
<1>2. CASE next_write # 1
  <2>1. writes \in Seq(Nat) /\ next_write - 1 \in 1 .. Len(writes)
    BY <1>2 DEF WriteInv, FileInv
  <2>2. writes[next_write - 1] \in Nat
    BY <2>1, ElementOfSeq
  <2>3. emitted_samples = TargetSamples(writes[next_write - 1])
    BY <1>2 DEF FileInv
  <2> QED BY <1>2, <2>2, <2>3, TargetIs
<1> QED BY <1>1, <1>2

\* A captured write goes to the file after the wait that brings it to its sample.
LEMMA WriteStep == HeadlessInv /\ WriteVgmWrite => HeadlessInv'
<1> SUFFICES ASSUME HeadlessInv, WriteVgmWrite PROVE HeadlessInv'
  OBVIOUS
<1> DEFINE cycle == writes[next_write]
           wait == WaitBefore(cycle)
           waited == append_vgm_wait(commands, wait)
           done == next_write - 1
<1>1. /\ run_stage = "writing" /\ next_write <= Len(writes)
      /\ commands' = Append(waited, WriteCommand)
      /\ emitted_samples' = emitted_samples + wait
      /\ next_write' = next_write + 1
      /\ UNCHANGED <<parser, run_stage, inputs, now, writes>>
  BY DEF WriteVgmWrite
<1>2. /\ WriteInv /\ FileInv /\ writes \in Seq(Nat) /\ next_write \in 1 .. Len(writes)
      /\ Timed(commands, done, emitted_samples)
  BY <1>1 DEF HeadlessInv, WriteInv, FileInv
<1>3. done \in Nat /\ done + 1 = next_write /\ cycle \in Nat
  BY <1>2, ElementOfSeq
<1>4. emitted_samples \in Nat /\ emitted_samples <= TargetSamples(cycle)
  <2>1. ASSUME next_write # 1 PROVE writes[next_write - 1] <= cycle
    <3>1. next_write - 1 \in 1 .. Len(writes) /\ next_write - 1 <= next_write
      BY <1>2, <2>1
    <3> QED BY <1>2, <3>1 DEF WriteInv
  <2> HIDE DEF cycle
  <2> QED BY <1>1, <1>2, <1>3, <2>1, NotAhead
<1> HIDE DEF done
<1>5. wait \in Nat /\ emitted_samples + wait = TargetSamples(cycle)
  <2> HIDE DEF cycle
  <2> QED BY <1>3, <1>4, WaitTo
<1>6. Timed(waited, done, emitted_samples')
  <2> HIDE DEF wait
  <2> QED BY <1>1, <1>2, <1>3, <1>5, TimedWait
<1> HIDE DEF wait, waited
<1>7. Timed(Append(waited, WriteCommand), done + 1, emitted_samples')
  <2>1. emitted_samples' = TargetSamples(writes[done + 1])
    BY <1>1, <1>3, <1>5
  <2> QED BY <1>3, <1>6, <2>1, TimedWrite
<1>8. Timed(commands, next_write - 1, emitted_samples)'
  <2>1. Timed(commands', next_write' - 1, emitted_samples')
    <3>1. next_write' - 1 = done + 1
      BY <1>1, <1>2, <1>3
    <3> QED BY <1>1, <1>7, <3>1
  <2> QED BY <1>1, <2>1 DEF Timed
<1>9. FileInv'
  <2>1. next_write' \in 1 .. Len(writes') + 1 /\ next_write' # 1 /\ next_write' - 1 = next_write
    BY <1>1, <1>2
  <2>2. emitted_samples' = TargetSamples(writes'[next_write' - 1])
    BY <1>1, <1>5, <2>1
  <2> QED BY <1>1, <1>8, <2>1, <2>2 DEF FileInv, TargetSamples
<1>10. ReadInv' /\ InputInv' /\ WriteInv'
  <2>1. \A n : state_for_frame(n)' = state_for_frame(n)
    BY <1>1 DEF state_for_frame, parser
  <2> QED BY <1>1, <2>1 DEF HeadlessInv, ReadInv, InputInv, WriteInv, parser
<1> QED BY <1>1, <1>9, <1>10 DEF HeadlessInv

\* The last wait brings the file to the end of the run.
LEMMA EndStep == HeadlessInv /\ WriteVgmEnd => HeadlessInv'
<1> SUFFICES ASSUME HeadlessInv, WriteVgmEnd PROVE HeadlessInv'
  OBVIOUS
<1> DEFINE wait == WaitBefore(now)
           done == next_write - 1
<1>1. /\ run_stage = "writing" /\ next_write > Len(writes) /\ run_stage' = "written"
      /\ commands' = append_vgm_wait(commands, wait)
      /\ emitted_samples' = emitted_samples + wait
      /\ UNCHANGED <<parser, inputs, now, writes, next_write>>
  BY DEF WriteVgmEnd
<1>2. /\ WriteInv /\ FileInv /\ writes \in Seq(Nat) /\ next_write = Len(writes) + 1 /\ now \in Nat
      /\ Timed(commands, done, emitted_samples) /\ done \in Nat /\ Len(writes) \in Nat
  BY <1>1 DEF HeadlessInv, WriteInv, FileInv
<1>3. emitted_samples \in Nat /\ emitted_samples <= TargetSamples(now)
  <2>1. ASSUME next_write # 1 PROVE writes[next_write - 1] <= now
    <3>1. next_write - 1 \in 1 .. Len(writes)
      BY <1>2, <2>1
    <3> QED BY <1>2, <3>1 DEF WriteInv
  <2> QED BY <1>1, <1>2, <2>1, NotAhead
<1>4. wait \in Nat /\ emitted_samples + wait = TargetSamples(now)
  BY <1>2, <1>3, WaitTo
<1>5. Timed(commands', done, emitted_samples')
  <2> HIDE DEF wait, done
  <2> QED BY <1>1, <1>2, <1>4, TimedWait
<1>6. Timed(commands, next_write - 1, emitted_samples)'
  BY <1>1, <1>5 DEF Timed
<1>7. FileInv'
  <2>1. emitted_samples' = TargetSamples(now)'
    BY <1>1, <1>4 DEF TargetSamples
  <2> QED BY <1>1, <1>2, <1>6, <2>1 DEF FileInv
<1>8. ReadInv' /\ InputInv' /\ WriteInv'
  <2>1. \A n : state_for_frame(n)' = state_for_frame(n)
    BY <1>1 DEF state_for_frame, parser
  <2> QED BY <1>1, <2>1 DEF HeadlessInv, ReadInv, InputInv, WriteInv, parser
<1> QED BY <1>1, <1>7, <1>8 DEF HeadlessInv, Stages

\* Every step of a headless run.
LEMMA HeadlessStep == HeadlessInv /\ [HeadlessNext]_headlessVars => HeadlessInv'
<1> SUFFICES ASSUME HeadlessInv, [HeadlessNext]_headlessVars PROVE HeadlessInv'
  OBVIOUS
<1>1. CASE UNCHANGED headlessVars
  <2>1. FileInv'
    BY <1>1, FileKept DEF headlessVars, HeadlessInv
  <2>2. \A n : state_for_frame(n)' = state_for_frame(n)
    BY <1>1 DEF state_for_frame, headlessVars
  <2> QED BY <1>1, <2>1, <2>2 DEF headlessVars, HeadlessInv, ReadInv, InputInv, WriteInv
<1> QED BY <1>1, ParseStep, StageSteps, FrameStep, WriteStep, EndStep DEF HeadlessNext

\* The invariant says of the run's input and file what the property asks.
LEMMA RunCaptured == HeadlessInv => RunIsCaptured
<1> SUFFICES ASSUME HeadlessInv PROVE RunIsCaptured
  OBVIOUS
<1>1. FramesFollowScript
  <2>1. /\ inputs \in Seq(Inputs \cup {NoButtons}) /\ DOMAIN inputs = 1 .. Len(inputs) /\ Len(inputs) \in Nat
        /\ \A n \in 1 .. Len(inputs) : inputs[n] = state_for_frame(n - 1)
    BY DEF HeadlessInv, InputInv
  <2> SUFFICES ASSUME NEW n \in 1 .. Len(inputs)
               PROVE  inputs[n] = IF SaidOf(script, n - 1) = {} THEN NoButtons
                                  ELSE script[Max(SaidOf(script, n - 1))].input
    BY <2>1 DEF FramesFollowScript, SaidOf
  <2>2. run_stage \in {"frames", "writing", "written"}
    <3>1. inputs # << >>
      BY <2>1
    <3> QED BY <3>1 DEF HeadlessInv, InputInv, Stages
  <2>3. script \in Scripts /\ ScriptRead(script, Len(script), events)
    BY <2>2 DEF HeadlessInv, ReadInv
  <2>4. n - 1 \in Nat
    BY <2>1
  <2> QED BY <2>1, <2>3, <2>4, StateFollows
<1>2. VgmKeepsTime
  <2> SUFFICES ASSUME run_stage = "written" PROVE VgmKeepsTime
    BY DEF VgmKeepsTime
  <2>1. /\ Timed(commands, Len(writes), emitted_samples) /\ emitted_samples = TargetSamples(now)
    <3>1. next_write = Len(writes) + 1 /\ Len(writes) \in Nat
      BY DEF HeadlessInv, FileInv, WriteInv
    <3>2. next_write - 1 = Len(writes)
      BY <3>1
    <3> QED BY <3>2 DEF HeadlessInv, FileInv
  <2>2. VgmWrites = WritesIn(commands)
    BY DEF VgmWrites, WritesIn
  <2>3. \A n : Cardinality({m \in VgmWrites : m <= n}) = CountTo(WritesIn(commands), n)
    BY <2>2 DEF CountTo
  <2> QED BY <2>1, <2>2, <2>3 DEF VgmKeepsTime, Timed, TargetSamples
<1> QED BY <1>1, <1>2 DEF RunIsCaptured

\* For any script, any frames and any writes, every frame of a headless run has
\* the script's input (state_for_frame) and every PSG write its sample in the
\* VGM file (write_psg_vgm).
THEOREM RunAlwaysCaptured == HeadlessSpec => []RunIsCaptured
<1>1. HeadlessInit => HeadlessInv
  BY HeadlessStarts
<1>2. HeadlessInv /\ [HeadlessNext]_headlessVars => HeadlessInv'
  BY HeadlessStep
<1>3. HeadlessInv => RunIsCaptured
  BY RunCaptured
<1> QED BY <1>1, <1>2, <1>3, PTL DEF HeadlessSpec
===========================================================================
