-------------------------- MODULE HostWritesProofs --------------------------
(***************************************************************************)
(* For any of the host's threads, any number of requests and any number of *)
(* host functions called by a script: mutexes are taken in one order,      *)
(* changes of the game's memory do not overlap, and no guarded or single-  *)
(* byte write starts after a rollback that could not be verified.          *)
(*                                                                         *)
(* The invariant gives the rest of every thread's code an annotation: the  *)
(* mutexes held before each of its steps.                                  *)
(***************************************************************************)
EXTENDS HostWrites, SequenceTheorems, FiniteSetTheorems, TLAPS

Kind == {"lock", "unlock", "gate", "check", "disable", "script"} \cup Changes
StepRecord == [do : Kind, on : SUBSET Mutex]

\* The mutexes held after a step.
After(step, held) ==
  IF step.do = "lock" THEN held \cup step.on
  ELSE IF step.do = "unlock" THEN held \ step.on
  ELSE held

\* What a step needs of the mutexes held before it.
Allowed(step, held) ==
  /\ step.do = "lock" => \A m \in step.on, h \in held : Rank(h) < Rank(m)
  /\ step.do \in {"guarded", "poke", "board"} => "write" \in held
  /\ step.do \in {"native", "board"} => "native" \in held
  /\ step.do = "script" => held = {"lua"}

\* Between the gate and step n of s nothing lets go of the write mutex and no
\* guarded write is made; the gate lies ahead, or may be passed already.
Gated(s, g, n, gate) ==
  \/ \E k \in 1..(n - 1) :
       s[k].do = "gate" /\ \A j \in k..(n - 1) : "write" \in g[j] /\ s[j].do # "guarded"
  \/ gate = "passed" /\ \A j \in 1..(n - 1) : "write" \in g[j] /\ s[j].do # "guarded"

\* g tells the mutexes held before each step of s and after the last.
Annotates(g, s, gate) ==
  /\ g \in Seq(SUBSET Mutex) /\ Len(g) = Len(s) + 1
  /\ \A n \in 1..Len(s) :
       /\ Allowed(s[n], g[n]) /\ g[n + 1] = After(s[n], g[n])
       /\ s[n].do = "guarded" => n < Len(s) /\ s[n + 1].do = "disable"
       /\ s[n].do \in {"guarded", "poke"} => Gated(s, g, n, gate)

\* s leads from the mutexes "from" to the mutexes "to".
Plan(s, from, to, gate) ==
  /\ s \in Seq(StepRecord)
  /\ \E g : Annotates(g, s, gate) /\ g[1] = from /\ g[Len(s) + 1] = to

-----------------------------------------------------------------------------
\* What each kind of step does to the mutexes held.
LEMMA AfterLemma ==
  \A S, H :
    /\ After(Lock(S), H) = H \cup S /\ After(Unlock(S), H) = H \ S
    /\ After(Do("gate"), H) = H /\ After(Do("check"), H) = H
    /\ After(Do("disable"), H) = H /\ After(Do("script"), H) = H
    /\ After(Do("guarded"), H) = H /\ After(Do("poke"), H) = H
    /\ After(Do("board"), H) = H /\ After(Do("native"), H) = H
  BY DEF After, Lock, Unlock, Do

\* The order of the mutexes.
LEMMA RankValues ==
  Rank("lua") = 1 /\ Rank("frtk") = 2 /\ Rank("write") = 3 /\ Rank("native") = 4
  BY DEF Rank

\* The plans of the handlers, and of the functions a script may call.
\* writeTransaction: from the gate to the flag under the write mutex.
LEMMA WriteTransactionPlan == Plan(WriteTransaction, {}, {}, "ahead")
  <1> DEFINE W == {"write"}
             s == WriteTransaction
             g == <<{}, W, W, W, W, W, {}>>
  <1>1. s \in Seq(StepRecord) /\ Len(s) = 6
    BY DEF WriteTransaction, Lock, Unlock, Do, StepRecord, Kind, Changes, Mutex
  <1>2. g \in Seq(SUBSET Mutex) /\ Len(g) = 7 /\ g[1] = {} /\ g[7] = {}
    <2>1. {} \in SUBSET Mutex /\ W \in SUBSET Mutex
      BY DEF Mutex
    <2> QED
      BY <2>1
  <1>3. ASSUME NEW n \in 1..6
        PROVE  Allowed(s[n], g[n]) /\ g[n + 1] = After(s[n], g[n])
    <2>1. Allowed(s[n], g[n])
      BY <1>3 DEF WriteTransaction, Lock, Unlock, Do, Allowed
    <2>2. {} \cup {"write"} = W /\ W \ {"write"} = {}
      OBVIOUS
    <2>3. /\ g[2] = After(s[1], g[1]) /\ g[3] = After(s[2], g[2])
          /\ g[4] = After(s[3], g[3]) /\ g[5] = After(s[4], g[4])
          /\ g[6] = After(s[5], g[5]) /\ g[7] = After(s[6], g[6])
      BY <2>2, AfterLemma DEF WriteTransaction
    <2>4. g[n + 1] = After(s[n], g[n])
      BY <1>3, <2>3
    <2> QED
      BY <2>1, <2>4
  <1>4. ASSUME NEW n \in 1..6
        PROVE  /\ s[n].do = "guarded" => n < 6 /\ s[n + 1].do = "disable"
               /\ s[n].do \in {"guarded", "poke"} => Gated(s, g, n, "ahead")
    BY <1>4 DEF WriteTransaction, Lock, Unlock, Do, Gated
  <1> HIDE DEF g, s
  <1>5. Annotates(g, s, "ahead")
    BY <1>1, <1>2, <1>3, <1>4 DEF Annotates
  <1>6. Plan(s, {}, {}, "ahead")
    BY <1>1, <1>2, <1>5 DEF Plan
  <1> QED
    BY <1>6 DEF s

\* transactFrtkFields: the catalog stays locked around the guarded write.
LEMMA TransactFrtkFieldsPlan == Plan(TransactFrtkFields, {}, {}, "ahead")
  <1> DEFINE F == {"frtk"}
             FW == {"frtk", "write"}
             s == TransactFrtkFields
             g == <<{}, F, FW, FW, FW, FW, FW, {}>>
  <1>1. s \in Seq(StepRecord) /\ Len(s) = 7
    BY DEF TransactFrtkFields, Lock, Unlock, Do, StepRecord, Kind, Changes, Mutex
  <1>2. g \in Seq(SUBSET Mutex) /\ Len(g) = 8 /\ g[1] = {} /\ g[8] = {}
    <2>1. {} \in SUBSET Mutex /\ F \in SUBSET Mutex /\ FW \in SUBSET Mutex
      BY DEF Mutex
    <2> QED
      BY <2>1
  <1>3. ASSUME NEW n \in 1..7
        PROVE  Allowed(s[n], g[n]) /\ g[n + 1] = After(s[n], g[n])
    <2>1. Allowed(s[n], g[n])
      BY <1>3, RankValues DEF TransactFrtkFields, Lock, Unlock, Do, Allowed
    <2>2. {} \cup {"frtk"} = F /\ F \cup {"write"} = FW /\ FW \ {"frtk", "write"} = {}
      OBVIOUS
    <2>3. /\ g[2] = After(s[1], g[1]) /\ g[3] = After(s[2], g[2])
          /\ g[4] = After(s[3], g[3]) /\ g[5] = After(s[4], g[4])
          /\ g[6] = After(s[5], g[5]) /\ g[7] = After(s[6], g[6])
          /\ g[8] = After(s[7], g[7])
      BY <2>2, AfterLemma DEF TransactFrtkFields
    <2>4. g[n + 1] = After(s[n], g[n])
      BY <1>3, <2>3
    <2> QED
      BY <2>1, <2>4
  <1>4. ASSUME NEW n \in 1..7
        PROVE  /\ s[n].do = "guarded" => n < 7 /\ s[n + 1].do = "disable"
               /\ s[n].do \in {"guarded", "poke"} => Gated(s, g, n, "ahead")
    BY <1>4 DEF TransactFrtkFields, Lock, Unlock, Do, Gated
  <1> HIDE DEF g, s
  <1>5. Annotates(g, s, "ahead")
    BY <1>1, <1>2, <1>3, <1>4 DEF Annotates
  <1>6. Plan(s, {}, {}, "ahead")
    BY <1>1, <1>2, <1>5 DEF Plan
  <1> QED
    BY <1>6 DEF s

\* nativeCall holds the native mutex alone.
LEMMA NativeCallPlan == Plan(NativeCall, {}, {}, "ahead")
  <1> DEFINE N == {"native"}
             s == NativeCall
             g == <<{}, {}, N, N, {}>>
  <1>1. s \in Seq(StepRecord) /\ Len(s) = 4
    BY DEF NativeCall, Lock, Unlock, Do, StepRecord, Kind, Changes, Mutex
  <1>2. g \in Seq(SUBSET Mutex) /\ Len(g) = 5 /\ g[1] = {} /\ g[5] = {}
    <2>1. {} \in SUBSET Mutex /\ N \in SUBSET Mutex
      BY DEF Mutex
    <2> QED
      BY <2>1
  <1>3. ASSUME NEW n \in 1..4
        PROVE  Allowed(s[n], g[n]) /\ g[n + 1] = After(s[n], g[n])
    <2>1. Allowed(s[n], g[n])
      BY <1>3 DEF NativeCall, Lock, Unlock, Do, Allowed
    <2>2. {} \cup {"native"} = N /\ N \ {"native"} = {}
      OBVIOUS
    <2>3. /\ g[2] = After(s[1], g[1]) /\ g[3] = After(s[2], g[2])
          /\ g[4] = After(s[3], g[3]) /\ g[5] = After(s[4], g[4])
      BY <2>2, AfterLemma DEF NativeCall
    <2>4. g[n + 1] = After(s[n], g[n])
      BY <1>3, <2>3
    <2> QED
      BY <2>1, <2>4
  <1>4. ASSUME NEW n \in 1..4
        PROVE  /\ s[n].do = "guarded" => n < 4 /\ s[n + 1].do = "disable"
               /\ s[n].do \in {"guarded", "poke"} => Gated(s, g, n, "ahead")
    BY <1>4 DEF NativeCall, Lock, Unlock, Do, Gated
  <1> HIDE DEF g, s
  <1>5. Annotates(g, s, "ahead")
    BY <1>1, <1>2, <1>3, <1>4 DEF Annotates
  <1>6. Plan(s, {}, {}, "ahead")
    BY <1>1, <1>2, <1>5 DEF Plan
  <1> QED
    BY <1>6 DEF s

\* boardMutation takes its two mutexes at once.
LEMMA BoardMutationPlan == Plan(BoardMutation, {}, {}, "ahead")
  <1> DEFINE WN == {"write", "native"}
             s == BoardMutation
             g == <<{}, {}, WN, WN, {}, {}>>
  <1>1. s \in Seq(StepRecord) /\ Len(s) = 5
    BY DEF BoardMutation, Lock, Unlock, Do, StepRecord, Kind, Changes, Mutex
  <1>2. g \in Seq(SUBSET Mutex) /\ Len(g) = 6 /\ g[1] = {} /\ g[6] = {}
    <2>1. {} \in SUBSET Mutex /\ WN \in SUBSET Mutex
      BY DEF Mutex
    <2> QED
      BY <2>1
  <1>3. ASSUME NEW n \in 1..5
        PROVE  Allowed(s[n], g[n]) /\ g[n + 1] = After(s[n], g[n])
    <2>1. Allowed(s[n], g[n])
      BY <1>3 DEF BoardMutation, Lock, Unlock, Do, Allowed
    <2>2. {} \cup {"write", "native"} = WN /\ WN \ {"write", "native"} = {}
      OBVIOUS
    <2>3. /\ g[2] = After(s[1], g[1]) /\ g[3] = After(s[2], g[2])
          /\ g[4] = After(s[3], g[3]) /\ g[5] = After(s[4], g[4])
          /\ g[6] = After(s[5], g[5])
      BY <2>2, AfterLemma DEF BoardMutation
    <2>4. g[n + 1] = After(s[n], g[n])
      BY <1>3, <2>3
    <2> QED
      BY <2>1, <2>4
  <1>4. ASSUME NEW n \in 1..5
        PROVE  /\ s[n].do = "guarded" => n < 5 /\ s[n + 1].do = "disable"
               /\ s[n].do \in {"guarded", "poke"} => Gated(s, g, n, "ahead")
    BY <1>4 DEF BoardMutation, Lock, Unlock, Do, Gated
  <1> HIDE DEF g, s
  <1>5. Annotates(g, s, "ahead")
    BY <1>1, <1>2, <1>3, <1>4 DEF Annotates
  <1>6. Plan(s, {}, {}, "ahead")
    BY <1>1, <1>2, <1>5 DEF Plan
  <1> QED
    BY <1>6 DEF s

\* The commands on the catalog.
LEMMA CatalogCommandPlan == Plan(CatalogCommand, {}, {}, "ahead")
  <1> DEFINE F == {"frtk"}
             s == CatalogCommand
             g == <<{}, F, F, {}>>
  <1>1. s \in Seq(StepRecord) /\ Len(s) = 3
    BY DEF CatalogCommand, Lock, Unlock, Do, StepRecord, Kind, Changes, Mutex
  <1>2. g \in Seq(SUBSET Mutex) /\ Len(g) = 4 /\ g[1] = {} /\ g[4] = {}
    <2>1. {} \in SUBSET Mutex /\ F \in SUBSET Mutex
      BY DEF Mutex
    <2> QED
      BY <2>1
  <1>3. ASSUME NEW n \in 1..3
        PROVE  Allowed(s[n], g[n]) /\ g[n + 1] = After(s[n], g[n])
    <2>1. Allowed(s[n], g[n])
      BY <1>3 DEF CatalogCommand, Lock, Unlock, Do, Allowed
    <2>2. {} \cup {"frtk"} = F /\ F \ {"frtk"} = {}
      OBVIOUS
    <2>3. /\ g[2] = After(s[1], g[1]) /\ g[3] = After(s[2], g[2])
          /\ g[4] = After(s[3], g[3])
      BY <2>2, AfterLemma DEF CatalogCommand
    <2>4. g[n + 1] = After(s[n], g[n])
      BY <1>3, <2>3
    <2> QED
      BY <2>1, <2>4
  <1>4. ASSUME NEW n \in 1..3
        PROVE  /\ s[n].do = "guarded" => n < 3 /\ s[n + 1].do = "disable"
               /\ s[n].do \in {"guarded", "poke"} => Gated(s, g, n, "ahead")
    BY <1>4 DEF CatalogCommand, Lock, Unlock, Do, Gated
  <1> HIDE DEF g, s
  <1>5. Annotates(g, s, "ahead")
    BY <1>1, <1>2, <1>3, <1>4 DEF Annotates
  <1>6. Plan(s, {}, {}, "ahead")
    BY <1>1, <1>2, <1>5 DEF Plan
  <1> QED
    BY <1>6 DEF s

\* status.
LEMMA StatusCommandPlan == Plan(StatusCommand, {}, {}, "ahead")
  <1> DEFINE L == {"lua"}
             s == StatusCommand
             g == <<{}, L, {}>>
  <1>1. s \in Seq(StepRecord) /\ Len(s) = 2
    BY DEF StatusCommand, Lock, Unlock, Do, StepRecord, Kind, Changes, Mutex
  <1>2. g \in Seq(SUBSET Mutex) /\ Len(g) = 3 /\ g[1] = {} /\ g[3] = {}
    <2>1. {} \in SUBSET Mutex /\ L \in SUBSET Mutex
      BY DEF Mutex
    <2> QED
      BY <2>1
  <1>3. ASSUME NEW n \in 1..2
        PROVE  Allowed(s[n], g[n]) /\ g[n + 1] = After(s[n], g[n])
    <2>1. Allowed(s[n], g[n])
      BY <1>3 DEF StatusCommand, Lock, Unlock, Do, Allowed
    <2>2. {} \cup {"lua"} = L /\ L \ {"lua"} = {}
      OBVIOUS
    <2>3. g[2] = After(s[1], g[1]) /\ g[3] = After(s[2], g[2])
      BY <2>2, AfterLemma DEF StatusCommand
    <2>4. g[n + 1] = After(s[n], g[n])
      BY <1>3, <2>3
    <2> QED
      BY <2>1, <2>4
  <1>4. ASSUME NEW n \in 1..2
        PROVE  /\ s[n].do = "guarded" => n < 2 /\ s[n + 1].do = "disable"
               /\ s[n].do \in {"guarded", "poke"} => Gated(s, g, n, "ahead")
    BY <1>4 DEF StatusCommand, Lock, Unlock, Do, Gated
  <1> HIDE DEF g, s
  <1>5. Annotates(g, s, "ahead")
    BY <1>1, <1>2, <1>3, <1>4 DEF Annotates
  <1>6. Plan(s, {}, {}, "ahead")
    BY <1>1, <1>2, <1>5 DEF Plan
  <1> QED
    BY <1>6 DEF s

\* A script runs under the Lua mutex alone.
LEMMA RunLuaPlan == Plan(RunLua, {}, {}, "ahead")
  <1> DEFINE L == {"lua"}
             s == RunLua
             g == <<{}, L, L, {}>>
  <1>1. s \in Seq(StepRecord) /\ Len(s) = 3
    BY DEF RunLua, Lock, Unlock, Do, StepRecord, Kind, Changes, Mutex
  <1>2. g \in Seq(SUBSET Mutex) /\ Len(g) = 4 /\ g[1] = {} /\ g[4] = {}
    <2>1. {} \in SUBSET Mutex /\ L \in SUBSET Mutex
      BY DEF Mutex
    <2> QED
      BY <2>1
  <1>3. ASSUME NEW n \in 1..3
        PROVE  Allowed(s[n], g[n]) /\ g[n + 1] = After(s[n], g[n])
    <2>1. Allowed(s[n], g[n])
      BY <1>3 DEF RunLua, Lock, Unlock, Do, Allowed
    <2>2. {} \cup {"lua"} = L /\ L \ {"lua"} = {}
      OBVIOUS
    <2>3. /\ g[2] = After(s[1], g[1]) /\ g[3] = After(s[2], g[2])
          /\ g[4] = After(s[3], g[3])
      BY <2>2, AfterLemma DEF RunLua
    <2>4. g[n + 1] = After(s[n], g[n])
      BY <1>3, <2>3
    <2> QED
      BY <2>1, <2>4
  <1>4. ASSUME NEW n \in 1..3
        PROVE  /\ s[n].do = "guarded" => n < 3 /\ s[n + 1].do = "disable"
               /\ s[n].do \in {"guarded", "poke"} => Gated(s, g, n, "ahead")
    BY <1>4 DEF RunLua, Lock, Unlock, Do, Gated
  <1> HIDE DEF g, s
  <1>5. Annotates(g, s, "ahead")
    BY <1>1, <1>2, <1>3, <1>4 DEF Annotates
  <1>6. Plan(s, {}, {}, "ahead")
    BY <1>1, <1>2, <1>5 DEF Plan
  <1> QED
    BY <1>6 DEF s

\* cfb.write_u8, called under the Lua mutex.
LEMMA LuaWriteU8Plan == Plan(LuaWriteU8, {"lua"}, {"lua"}, "ahead")
  <1> DEFINE L == {"lua"}
             LW == {"lua", "write"}
             s == LuaWriteU8
             g == <<L, LW, LW, LW, LW, L>>
  <1>1. s \in Seq(StepRecord) /\ Len(s) = 5
    BY DEF LuaWriteU8, Lock, Unlock, Do, StepRecord, Kind, Changes, Mutex
  <1>2. g \in Seq(SUBSET Mutex) /\ Len(g) = 6 /\ g[1] = L /\ g[6] = L
    <2>1. L \in SUBSET Mutex /\ LW \in SUBSET Mutex
      BY DEF Mutex
    <2> QED
      BY <2>1
  <1>3. ASSUME NEW n \in 1..5
        PROVE  Allowed(s[n], g[n]) /\ g[n + 1] = After(s[n], g[n])
    <2>1. Allowed(s[n], g[n])
      BY <1>3, RankValues DEF LuaWriteU8, Lock, Unlock, Do, Allowed
    <2>2. L \cup {"write"} = LW /\ LW \ {"write"} = L
      OBVIOUS
    <2>3. /\ g[2] = After(s[1], g[1]) /\ g[3] = After(s[2], g[2])
          /\ g[4] = After(s[3], g[3]) /\ g[5] = After(s[4], g[4])
          /\ g[6] = After(s[5], g[5])
      BY <2>2, AfterLemma DEF LuaWriteU8
    <2>4. g[n + 1] = After(s[n], g[n])
      BY <1>3, <2>3
    <2> QED
      BY <2>1, <2>4
  <1>4. ASSUME NEW n \in 1..5
        PROVE  /\ s[n].do = "guarded" => n < 5 /\ s[n + 1].do = "disable"
               /\ s[n].do \in {"guarded", "poke"} => Gated(s, g, n, "ahead")
    BY <1>4 DEF LuaWriteU8, Lock, Unlock, Do, Gated
  <1> HIDE DEF g, s
  <1>5. Annotates(g, s, "ahead")
    BY <1>1, <1>2, <1>3, <1>4 DEF Annotates
  <1>6. Plan(s, {"lua"}, {"lua"}, "ahead")
    BY <1>1, <1>2, <1>5 DEF Plan
  <1> QED
    BY <1>6 DEF s

\* cfb.call.
LEMMA LuaNativeCallPlan == Plan(LuaNativeCall, {"lua"}, {"lua"}, "ahead")
  <1> DEFINE L == {"lua"}
             LN == {"lua", "native"}
             s == LuaNativeCall
             g == <<L, L, LN, LN, L>>
  <1>1. s \in Seq(StepRecord) /\ Len(s) = 4
    BY DEF LuaNativeCall, NativeCall, Lock, Unlock, Do, StepRecord, Kind, Changes, Mutex
  <1>2. g \in Seq(SUBSET Mutex) /\ Len(g) = 5 /\ g[1] = L /\ g[5] = L
    <2>1. L \in SUBSET Mutex /\ LN \in SUBSET Mutex
      BY DEF Mutex
    <2> QED
      BY <2>1
  <1>3. ASSUME NEW n \in 1..4
        PROVE  Allowed(s[n], g[n]) /\ g[n + 1] = After(s[n], g[n])
    <2>1. Allowed(s[n], g[n])
      BY <1>3, RankValues DEF LuaNativeCall, NativeCall, Lock, Unlock, Do, Allowed
    <2>2. L \cup {"native"} = LN /\ LN \ {"native"} = L
      OBVIOUS
    <2>3. /\ g[2] = After(s[1], g[1]) /\ g[3] = After(s[2], g[2])
          /\ g[4] = After(s[3], g[3]) /\ g[5] = After(s[4], g[4])
      BY <2>2, AfterLemma DEF LuaNativeCall, NativeCall
    <2>4. g[n + 1] = After(s[n], g[n])
      BY <1>3, <2>3
    <2> QED
      BY <2>1, <2>4
  <1>4. ASSUME NEW n \in 1..4
        PROVE  /\ s[n].do = "guarded" => n < 4 /\ s[n + 1].do = "disable"
               /\ s[n].do \in {"guarded", "poke"} => Gated(s, g, n, "ahead")
    BY <1>4 DEF LuaNativeCall, NativeCall, Lock, Unlock, Do, Gated
  <1> HIDE DEF g, s
  <1>5. Annotates(g, s, "ahead")
    BY <1>1, <1>2, <1>3, <1>4 DEF Annotates
  <1>6. Plan(s, {"lua"}, {"lua"}, "ahead")
    BY <1>1, <1>2, <1>5 DEF Plan
  <1> QED
    BY <1>6 DEF s

\* Reads of a table.
LEMMA LuaTableReadPlan == Plan(LuaTableRead, {"lua"}, {"lua"}, "ahead")
  <1> DEFINE L == {"lua"}
             LF == {"lua", "frtk"}
             s == LuaTableRead
             g == <<L, LF, LF, L>>
  <1>1. s \in Seq(StepRecord) /\ Len(s) = 3
    BY DEF LuaTableRead, Lock, Unlock, Do, StepRecord, Kind, Changes, Mutex
  <1>2. g \in Seq(SUBSET Mutex) /\ Len(g) = 4 /\ g[1] = L /\ g[4] = L
    <2>1. L \in SUBSET Mutex /\ LF \in SUBSET Mutex
      BY DEF Mutex
    <2> QED
      BY <2>1
  <1>3. ASSUME NEW n \in 1..3
        PROVE  Allowed(s[n], g[n]) /\ g[n + 1] = After(s[n], g[n])
    <2>1. Allowed(s[n], g[n])
      BY <1>3, RankValues DEF LuaTableRead, Lock, Unlock, Do, Allowed
    <2>2. L \cup {"frtk"} = LF /\ LF \ {"frtk"} = L
      OBVIOUS
    <2>3. /\ g[2] = After(s[1], g[1]) /\ g[3] = After(s[2], g[2])
          /\ g[4] = After(s[3], g[3])
      BY <2>2, AfterLemma DEF LuaTableRead
    <2>4. g[n + 1] = After(s[n], g[n])
      BY <1>3, <2>3
    <2> QED
      BY <2>1, <2>4
  <1>4. ASSUME NEW n \in 1..3
        PROVE  /\ s[n].do = "guarded" => n < 3 /\ s[n + 1].do = "disable"
               /\ s[n].do \in {"guarded", "poke"} => Gated(s, g, n, "ahead")
    BY <1>4 DEF LuaTableRead, Lock, Unlock, Do, Gated
  <1> HIDE DEF g, s
  <1>5. Annotates(g, s, "ahead")
    BY <1>1, <1>2, <1>3, <1>4 DEF Annotates
  <1>6. Plan(s, {"lua"}, {"lua"}, "ahead")
    BY <1>1, <1>2, <1>5 DEF Plan
  <1> QED
    BY <1>6 DEF s

\* db.transaction: the catalog's mutex before the write mutex.
LEMMA LuaTransactionPlan == Plan(LuaTransaction, {"lua"}, {"lua"}, "ahead")
  <1> DEFINE L == {"lua"}
             LF == {"lua", "frtk"}
             LFW == {"lua", "frtk", "write"}
             s == LuaTransaction
             g == <<L, LF, LF, LFW, LFW, LFW, LFW, L>>
  <1>1. s \in Seq(StepRecord) /\ Len(s) = 7
    BY DEF LuaTransaction, Lock, Unlock, Do, StepRecord, Kind, Changes, Mutex
  <1>2. g \in Seq(SUBSET Mutex) /\ Len(g) = 8 /\ g[1] = L /\ g[8] = L
    <2>1. L \in SUBSET Mutex /\ LF \in SUBSET Mutex /\ LFW \in SUBSET Mutex
      BY DEF Mutex
    <2> QED
      BY <2>1
  <1>3. ASSUME NEW n \in 1..7
        PROVE  Allowed(s[n], g[n]) /\ g[n + 1] = After(s[n], g[n])
    <2>1. Allowed(s[n], g[n])
      BY <1>3, RankValues DEF LuaTransaction, Lock, Unlock, Do, Allowed
    <2>2. L \cup {"frtk"} = LF /\ LF \cup {"write"} = LFW /\ LFW \ {"frtk", "write"} = L
      OBVIOUS
    <2>3. /\ g[2] = After(s[1], g[1]) /\ g[3] = After(s[2], g[2])
          /\ g[4] = After(s[3], g[3]) /\ g[5] = After(s[4], g[4])
          /\ g[6] = After(s[5], g[5]) /\ g[7] = After(s[6], g[6])
          /\ g[8] = After(s[7], g[7])
      BY <2>2, AfterLemma DEF LuaTransaction
    <2>4. g[n + 1] = After(s[n], g[n])
      BY <1>3, <2>3
    <2> QED
      BY <2>1, <2>4
  <1>4. ASSUME NEW n \in 1..7
        PROVE  /\ s[n].do = "guarded" => n < 7 /\ s[n + 1].do = "disable"
               /\ s[n].do \in {"guarded", "poke"} => Gated(s, g, n, "ahead")
    BY <1>4 DEF LuaTransaction, Lock, Unlock, Do, Gated
  <1> HIDE DEF g, s
  <1>5. Annotates(g, s, "ahead")
    BY <1>1, <1>2, <1>3, <1>4 DEF Annotates
  <1>6. Plan(s, {"lua"}, {"lua"}, "ahead")
    BY <1>1, <1>2, <1>5 DEF Plan
  <1> QED
    BY <1>6 DEF s

\* The catalog's part of UpdateGameReady.
LEMMA UpdateCatalogPlan == Plan(<< Lock({"frtk"}), Unlock({"frtk"}) >>, {}, {}, "ahead")
  <1> DEFINE F == {"frtk"}
             s == << Lock({"frtk"}), Unlock({"frtk"}) >>
             g == <<{}, F, {}>>
  <1>1. s \in Seq(StepRecord) /\ Len(s) = 2
    BY DEF Lock, Unlock, Do, StepRecord, Kind, Changes, Mutex
  <1>2. g \in Seq(SUBSET Mutex) /\ Len(g) = 3 /\ g[1] = {} /\ g[3] = {}
    <2>1. {} \in SUBSET Mutex /\ F \in SUBSET Mutex
      BY DEF Mutex
    <2> QED
      BY <2>1
  <1>3. ASSUME NEW n \in 1..2
        PROVE  Allowed(s[n], g[n]) /\ g[n + 1] = After(s[n], g[n])
    <2>1. Allowed(s[n], g[n])
      BY <1>3 DEF Lock, Unlock, Do, Allowed
    <2>2. {} \cup {"frtk"} = F /\ F \ {"frtk"} = {}
      OBVIOUS
    <2>3. g[2] = After(s[1], g[1]) /\ g[3] = After(s[2], g[2])
      BY <2>2, AfterLemma
    <2>4. g[n + 1] = After(s[n], g[n])
      BY <1>3, <2>3
    <2> QED
      BY <2>1, <2>4
  <1>4. ASSUME NEW n \in 1..2
        PROVE  /\ s[n].do = "guarded" => n < 2 /\ s[n + 1].do = "disable"
               /\ s[n].do \in {"guarded", "poke"} => Gated(s, g, n, "ahead")
    BY <1>4 DEF Lock, Unlock, Do, Gated
  <1> HIDE DEF g, s
  <1>5. Annotates(g, s, "ahead")
    BY <1>1, <1>2, <1>3, <1>4 DEF Annotates
  <1>6. Plan(s, {}, {}, "ahead")
    BY <1>1, <1>2, <1>5 DEF Plan
  <1> QED
    BY <1>6 DEF s

-----------------------------------------------------------------------------
\* A plan may be read with the gate passed; and where the write mutex is not
\* held, no gate that matters has been passed.
LEMMA GateLemma ==
  ASSUME NEW s, NEW from, NEW to
  PROVE  /\ Plan(s, from, to, "ahead") => Plan(s, from, to, "passed")
         /\ Plan(s, from, to, "passed") /\ "write" \notin from => Plan(s, from, to, "ahead")
  <1>1. ASSUME Plan(s, from, to, "ahead")
        PROVE  Plan(s, from, to, "passed")
    <2>1. PICK g : Annotates(g, s, "ahead") /\ g[1] = from /\ g[Len(s) + 1] = to
      BY <1>1 DEF Plan
    <2>2. Annotates(g, s, "passed")
      BY <2>1 DEF Annotates, Gated
    <2> QED
      BY <1>1, <2>1, <2>2 DEF Plan
  <1>2. ASSUME Plan(s, from, to, "passed"), "write" \notin from
        PROVE  Plan(s, from, to, "ahead")
    <2>1. PICK g : Annotates(g, s, "passed") /\ g[1] = from /\ g[Len(s) + 1] = to
      BY <1>2 DEF Plan
    <2>2. ASSUME NEW n \in 1..Len(s), s[n].do \in {"guarded", "poke"}
          PROVE  Gated(s, g, n, "ahead")
      <3>1. Gated(s, g, n, "passed") /\ "write" \in g[n]
        BY <2>1, <2>2 DEF Annotates, Allowed
      <3>2. n # 1 /\ 1 \in 1..(n - 1)
        BY <1>2, <2>1, <3>1
      <3> QED
        BY <1>2, <2>1, <3>1, <3>2 DEF Gated
    <2>3. Annotates(g, s, "ahead")
      BY <2>1, <2>2 DEF Annotates
    <2> QED
      BY <1>2, <2>1, <2>3 DEF Plan
  <1> QED
    BY <1>1, <1>2

\* Nothing is left to do exactly when what is held is what is to be held.
LEMMA EmptyPlan ==
  ASSUME NEW from \in SUBSET Mutex, NEW to, NEW gate
  PROVE  Plan(<<>>, from, to, gate) <=> from = to
  <1> DEFINE g == <<from>>
  <1>1. <<>> \in Seq(StepRecord) /\ Len(<<>>) = 0
    OBVIOUS
  <1>2. g \in Seq(SUBSET Mutex) /\ Len(g) = 1 /\ g[1] = from
    OBVIOUS
  <1> HIDE DEF g
  <1>3. Annotates(g, <<>>, gate)
    BY <1>1, <1>2 DEF Annotates
  <1>4. Plan(<<>>, from, from, gate)
    BY <1>1, <1>2, <1>3 DEF Plan
  <1>5. Plan(<<>>, from, to, gate) => from = to
    BY <1>1 DEF Plan
  <1> QED
    BY <1>4, <1>5

\* One plan after the other.
LEMMA ConcatPlan ==
  ASSUME NEW s, NEW t, NEW from, NEW via, NEW to,
         Plan(s, from, via, "ahead"), Plan(t, via, to, "ahead")
  PROVE  Plan(s \o t, from, to, "ahead")
  <1>1. PICK g : Annotates(g, s, "ahead") /\ g[1] = from /\ g[Len(s) + 1] = via
    BY DEF Plan
  <1>2. PICK h : Annotates(h, t, "ahead") /\ h[1] = via /\ h[Len(t) + 1] = to
    BY DEF Plan
  <1> DEFINE u == s \o t
             L == Len(s)
             k == [n \in 1..(L + Len(t) + 1) |-> IF n <= L THEN g[n] ELSE h[n - L]]
  <1>3. /\ s \in Seq(StepRecord) /\ t \in Seq(StepRecord) /\ L \in Nat /\ Len(t) \in Nat
        /\ u \in Seq(StepRecord) /\ Len(u) = L + Len(t)
        /\ \A n \in 1..(L + Len(t)) : u[n] = IF n <= L THEN s[n] ELSE t[n - L]
    BY ConcatProperties DEF Plan
  <1>4. /\ g \in Seq(SUBSET Mutex) /\ h \in Seq(SUBSET Mutex)
        /\ Len(g) = L + 1 /\ Len(h) = Len(t) + 1
    BY <1>1, <1>2 DEF Annotates
  <1>5. /\ \A n \in 1..(L + 1) : k[n] = g[n]
        /\ \A n \in 1..(Len(t) + 1) : k[n + L] = h[n]
    BY <1>1, <1>2, <1>3
  <1>6. k \in Seq(SUBSET Mutex) /\ Len(k) = Len(u) + 1
    BY <1>3, <1>4
  <1> HIDE DEF u, k
  <1>7. ASSUME NEW n \in 1..Len(u)
        PROVE  /\ Allowed(u[n], k[n]) /\ k[n + 1] = After(u[n], k[n])
               /\ u[n].do = "guarded" => n < Len(u) /\ u[n + 1].do = "disable"
               /\ u[n].do \in {"guarded", "poke"} => Gated(u, k, n, "ahead")
    <2>1. CASE n <= L
      <3>1. /\ n \in 1..Len(s) /\ u[n] = s[n] /\ k[n] = g[n] /\ k[n + 1] = g[n + 1]
            /\ \A j \in 1..(n - 1) : u[j] = s[j] /\ k[j] = g[j]
            /\ n < L => n + 1 <= L /\ u[n + 1] = s[n + 1]
        BY <1>3, <1>5, <2>1
      <3>2. s[n].do \in {"guarded", "poke"} => Gated(s, g, n, "ahead")
        BY <1>1, <3>1 DEF Annotates
      <3>3. u[n].do \in {"guarded", "poke"} => Gated(u, k, n, "ahead")
        BY <3>1, <3>2 DEF Gated
      <3> QED
        BY <1>1, <1>3, <3>1, <3>3 DEF Annotates
    <2>2. CASE n > L
      <3> DEFINE m == n - L
      <3>1. /\ m \in 1..Len(t) /\ u[n] = t[m] /\ k[n] = h[m] /\ k[n + 1] = h[m + 1]
            /\ \A j \in 1..(m - 1) : u[j + L] = t[j] /\ k[j + L] = h[j]
            /\ m < Len(t) => n < Len(u) /\ u[n + 1] = t[m + 1]
        <4>1. m \in 1..Len(t) /\ n = m + L /\ n + 1 = (m + 1) + L /\ n \in 1..(L + Len(t))
          BY <1>3, <2>2
        <4>2. u[n] = t[m] /\ k[n] = h[m] /\ k[n + 1] = h[m + 1]
          <5>1. m \in 1..(Len(t) + 1) /\ m + 1 \in 1..(Len(t) + 1)
            BY <1>3, <4>1
          <5>2. k[m + L] = h[m] /\ k[(m + 1) + L] = h[m + 1]
            BY <1>5, <5>1
          <5> QED
            BY <1>3, <2>2, <4>1, <5>2
        <4>3. ASSUME NEW j \in 1..(m - 1)
              PROVE  u[j + L] = t[j] /\ k[j + L] = h[j]
          <5>1. j \in 1..(Len(t) + 1) /\ j + L \in 1..(L + Len(t)) /\ ~(j + L <= L) /\ (j + L) - L = j
            BY <1>3, <4>1
          <5> QED
            BY <1>3, <1>5, <5>1
        <4>4. ASSUME m < Len(t)
              PROVE  n < Len(u) /\ u[n + 1] = t[m + 1]
          <5>1. n + 1 \in 1..(L + Len(t)) /\ ~(n + 1 <= L) /\ (n + 1) - L = m + 1 /\ n < Len(u)
            BY <1>3, <2>2, <4>4
          <5> QED
            BY <1>3, <5>1
        <4> QED
          BY <4>1, <4>2, <4>3, <4>4
      <3>2. ASSUME u[n].do \in {"guarded", "poke"}
            PROVE  Gated(u, k, n, "ahead")
        <4>1. Gated(t, h, m, "ahead")
          BY <1>2, <3>1, <3>2 DEF Annotates
        <4>2. PICK i \in 1..(m - 1) :
                t[i].do = "gate" /\ \A j \in i..(m - 1) : "write" \in h[j] /\ t[j].do # "guarded"
          BY <4>1 DEF Gated
        <4>3. i + L \in 1..(n - 1) /\ u[i + L].do = "gate"
          BY <1>3, <3>1, <4>2
        <4>4. ASSUME NEW j \in (i + L)..(n - 1)
              PROVE  "write" \in k[j] /\ u[j].do # "guarded"
          <5>1. j - L \in i..(m - 1) /\ j - L \in 1..(m - 1) /\ j = (j - L) + L
            BY <1>3, <4>2, <4>4
          <5> QED
            BY <3>1, <4>2, <5>1
        <4> QED
          BY <4>3, <4>4 DEF Gated
      <3> QED
        BY <1>2, <3>1, <3>2 DEF Annotates
    <2> QED
      BY <1>3, <2>1, <2>2
  <1>8. Annotates(k, u, "ahead")
    BY <1>6, <1>7 DEF Annotates
  <1>9. k[1] = from /\ k[Len(u) + 1] = to
    <2>1. 1 \in 1..(L + 1) /\ Len(t) + 1 \in 1..(Len(t) + 1) /\ Len(u) + 1 = (Len(t) + 1) + L
      BY <1>3
    <2>2. k[1] = g[1] /\ k[(Len(t) + 1) + L] = h[Len(t) + 1]
      BY <1>5, <2>1
    <2> QED
      BY <1>1, <1>2, <2>1, <2>2
  <1>10. Plan(u, from, to, "ahead")
    BY <1>3, <1>8, <1>9 DEF Plan
  <1> QED
    BY <1>10 DEF u

-----------------------------------------------------------------------------
\* What the plan says of the step taken next.
LEMMA HeadPlan ==
  ASSUME NEW s, NEW from, NEW to, NEW gate, Plan(s, from, to, gate), s # <<>>
  PROVE  /\ Head(s) = s[1] /\ s[1] \in StepRecord /\ Allowed(s[1], from)
         /\ s[1].do = "guarded" => Tail(s) # <<>> /\ Head(Tail(s)).do = "disable"
         /\ s[1].do \in {"guarded", "poke"} => gate = "passed"
  <1>1. PICK g : Annotates(g, s, gate) /\ g[1] = from
    BY DEF Plan
  <1>2. s \in Seq(StepRecord) /\ Len(s) \in Nat /\ 1 \in 1..Len(s) /\ Head(s) = s[1] /\ s[1] \in StepRecord
    BY DEF Plan
  <1>3. Allowed(s[1], from)
    BY <1>1, <1>2 DEF Annotates
  <1>4. ASSUME s[1].do = "guarded"
        PROVE  Tail(s) # <<>> /\ Head(Tail(s)).do = "disable"
    <2>1. 1 < Len(s) /\ s[1 + 1].do = "disable"
      BY <1>1, <1>2, <1>4 DEF Annotates
    <2> DEFINE w == Tail(s)
    <2>2. w \in Seq(StepRecord) /\ Len(w) = Len(s) - 1 /\ \A n \in 1..Len(w) : w[n] = s[n + 1]
      BY <1>2
    <2> HIDE DEF w
    <2>3. w # <<>> /\ Head(w) = w[1] /\ w[1] = s[1 + 1]
      BY <1>2, <2>1, <2>2
    <2>4. w # <<>> /\ Head(w).do = "disable"
      BY <2>1, <2>3
    <2> QED
      BY <2>4 DEF w
  <1>5. ASSUME s[1].do \in {"guarded", "poke"}
        PROVE  gate = "passed"
    <2>1. Gated(s, g, 1, gate)
      BY <1>1, <1>2, <1>5 DEF Annotates
    <2> QED
      BY <2>1 DEF Gated
  <1> QED
    BY <1>2, <1>3, <1>4, <1>5

\* Taking a step leaves a plan.  The gate lies behind once it has been taken,
\* and lies ahead again after a guarded write.
LEMMA TailPlan ==
  ASSUME NEW s, NEW from, NEW to, NEW gate, NEW later, Plan(s, from, to, gate), s # <<>>,
         s[1].do = "gate" => later = "passed",
         gate = "passed" => later = "passed" \/ s[1].do = "guarded"
  PROVE  Plan(Tail(s), After(s[1], from), to, later)
  <1>1. PICK g : Annotates(g, s, gate) /\ g[1] = from /\ g[Len(s) + 1] = to
    BY DEF Plan
  <1> DEFINE u == Tail(s)
             k == Tail(g)
  <1>2. /\ s \in Seq(StepRecord) /\ u \in Seq(StepRecord) /\ Len(s) \in Nat /\ Len(s) > 0
        /\ Len(u) = Len(s) - 1 /\ \A n \in 1..Len(u) : u[n] = s[n + 1]
    BY DEF Plan
  <1>3. /\ k \in Seq(SUBSET Mutex) /\ Len(k) = Len(s) /\ \A n \in 1..Len(s) : k[n] = g[n + 1]
    <2>1. g \in Seq(SUBSET Mutex) /\ Len(g) = Len(s) + 1
      BY <1>1 DEF Annotates
    <2> QED
      BY <1>2, <2>1
  <1> HIDE DEF u, k
  <1>4. ASSUME NEW n \in 1..Len(u)
        PROVE  /\ Allowed(u[n], k[n]) /\ k[n + 1] = After(u[n], k[n])
               /\ u[n].do = "guarded" => n < Len(u) /\ u[n + 1].do = "disable"
               /\ u[n].do \in {"guarded", "poke"} => Gated(u, k, n, later)
    <2>1. /\ n + 1 \in 1..Len(s) /\ u[n] = s[n + 1] /\ k[n] = g[n + 1] /\ k[n + 1] = g[(n + 1) + 1]
          /\ n + 1 < Len(s) => n < Len(u) /\ u[n + 1] = s[(n + 1) + 1]
      BY <1>2, <1>3
    <2>2. ASSUME NEW j \in 1..(n - 1)
          PROVE  u[j] = s[j + 1] /\ k[j] = g[j + 1]
      <3>1. j \in 1..Len(u) /\ j \in 1..Len(s)
        BY <1>2
      <3> QED
        BY <1>2, <1>3, <3>1
    <2>3. ASSUME u[n].do \in {"guarded", "poke"}
          PROVE  Gated(u, k, n, later)
      <3>1. Gated(s, g, n + 1, gate)
        BY <1>1, <2>1, <2>3 DEF Annotates
      <3>2. ASSUME NEW i \in 1..n, s[i].do = "gate",
                   \A j \in i..n : "write" \in g[j] /\ s[j].do # "guarded"
            PROVE  Gated(u, k, n, later)
        <4>1. CASE i = 1
          <5>1. later = "passed"
            BY <3>2, <4>1
          <5>2. \A j \in 1..(n - 1) : j + 1 \in i..n
            BY <4>1
          <5> QED
            BY <2>2, <3>2, <5>1, <5>2 DEF Gated
        <4>2. CASE i # 1
          <5>1. i - 1 \in 1..(n - 1) /\ u[i - 1] = s[i]
            BY <2>2, <4>2
          <5>2. \A j \in (i - 1)..(n - 1) : j + 1 \in i..n /\ j \in 1..(n - 1)
            BY <4>2
          <5> QED
            BY <2>2, <3>2, <5>1, <5>2 DEF Gated
        <4> QED
          BY <4>1, <4>2
      <3>3. ASSUME gate = "passed", \A j \in 1..n : "write" \in g[j] /\ s[j].do # "guarded"
            PROVE  Gated(u, k, n, later)
        <4>1. 1 \in 1..n /\ \A j \in 1..(n - 1) : j + 1 \in 1..n
          BY <1>2
        <4>2. later = "passed"
          BY <3>3, <4>1
        <4> QED
          BY <2>2, <3>3, <4>1, <4>2 DEF Gated
      <3>4. (n + 1) - 1 = n
        BY <1>2
      <3> QED
        BY <3>1, <3>2, <3>3, <3>4 DEF Gated
    <2> QED
      BY <1>1, <2>1, <2>3 DEF Annotates
  <1>5. Annotates(k, u, later)
    BY <1>2, <1>3, <1>4 DEF Annotates
  <1>6. k[1] = After(s[1], from) /\ k[Len(u) + 1] = to
    BY <1>1, <1>2, <1>3 DEF Annotates
  <1>7. Plan(u, After(s[1], from), to, later)
    BY <1>2, <1>5, <1>6 DEF Plan
  <1> QED
    BY <1>7 DEF u

-----------------------------------------------------------------------------
(* The invariant.                                                          *)

Shaped ==
  /\ owner \in [Mutex -> Thread \cup {Free}]
  /\ code \in [Thread -> Seq(StepRecord)]
  /\ outcome \in [Thread -> {"none", "other", "unverified"}]
  /\ busy \in [Thread -> Changes \cup {"no"}]
  /\ disabled \in BOOLEAN

\* Until a guarded write could not be verified, a gate may have been passed.
GateNow == IF "guarded" \in failed THEN "ahead" ELSE "passed"

\* What a thread has still to do goes with the mutexes it holds, and lets go of
\* all of them.
PlanOf(t) == Plan(code[t], Held(t), {}, GateNow)

\* A change is made by the step at the head of the thread's code.
BusyAt(t) == busy[t] # "no" => At(t, busy[t])

\* A failed rollback is published before the write mutex is let go.
Pending(t) == At(t, "disable") /\ outcome[t] = "unverified" /\ "write" \in Held(t)
Accounted == "guarded" \in failed => disabled \/ \E t \in Thread : Pending(t)

Invariant == Shaped /\ (\A t \in Thread : PlanOf(t) /\ BusyAt(t)) /\ Accounted

-----------------------------------------------------------------------------
\* No thread is called Free.
LEMMA FreeIsNoThread == Free \notin Thread
  BY ThreadAssumption DEF Free

\* Two threads do not hold the same mutex.
LEMMA HeldByOne == \A t, u \in Thread, m \in Mutex : m \in Held(t) /\ m \in Held(u) => t = u
  BY DEF Held

\* A step of t that leaves the others alone and the record of failures as it is.
LEMMA LocalStep ==
  ASSUME Invariant, NEW t \in Thread, Shaped',
         \A u \in Thread \ {t} :
           /\ code'[u] = code[u] /\ Held(u)' = Held(u)
           /\ outcome'[u] = outcome[u] /\ busy'[u] = busy[u],
         "guarded" \in failed' <=> "guarded" \in failed,
         disabled => disabled',
         Pending(t) => disabled' \/ Pending(t)',
         PlanOf(t)', BusyAt(t)'
  PROVE  Invariant'
  <1>1. GateNow' = GateNow
    BY DEF GateNow
  <1>2. ASSUME NEW u \in Thread
        PROVE  PlanOf(u)' /\ BusyAt(u)'
    <2>1. CASE u = t
      BY <2>1
    <2>2. CASE u # t
      BY <1>1, <2>2 DEF Invariant, PlanOf, BusyAt, At
    <2> QED
      BY <2>1, <2>2
  <1>3. Accounted'
    <2>1. ASSUME NEW u \in Thread \ {t}, Pending(u)
          PROVE  Pending(u)'
      BY <2>1 DEF Pending, At
    <2> QED
      BY <2>1 DEF Invariant, Accounted
  <1> QED
    BY <1>2, <1>3 DEF Invariant

\* Mutexes let go of by t were its own.
LEMMA ReleaseLemma ==
  ASSUME Shaped, NEW t \in Thread, NEW S \in SUBSET Mutex, Release(t, S)
  PROVE  /\ owner' \in [Mutex -> Thread \cup {Free}]
         /\ Held(t)' = Held(t) \ S
         /\ \A u \in Thread \ {t} : Held(u)' = Held(u)
  <1>1. owner' = [m \in Mutex |-> IF m \in S /\ owner[m] = t THEN Free ELSE owner[m]]
    BY DEF Release
  <1>2. owner' \in [Mutex -> Thread \cup {Free}]
    BY <1>1 DEF Shaped
  <1>3. Held(t)' = Held(t) \ S
    BY <1>1, FreeIsNoThread DEF Held
  <1>4. \A u \in Thread \ {t} : Held(u)' = Held(u)
    BY <1>1, FreeIsNoThread DEF Held
  <1> QED
    BY <1>2, <1>3, <1>4

\* A thread with a step to take, and what its plan says of the step.
LEMMA StepFacts ==
  ASSUME Invariant, NEW t \in Thread, code[t] # <<>>
  PROVE  /\ Head(code[t]) = code[t][1] /\ Head(code[t]) \in StepRecord
         /\ Allowed(Head(code[t]), Held(t))
         /\ Head(code[t]).do = "guarded" =>
              Tail(code[t]) # <<>> /\ Head(Tail(code[t])).do = "disable"
         /\ Head(code[t]).do \in {"guarded", "poke"} => "guarded" \notin failed
         /\ code[t] \in Seq(StepRecord) /\ Tail(code[t]) \in Seq(StepRecord)
         /\ Held(t) \in SUBSET Mutex
         /\ Head(code[t]).do # "gate" =>
              Plan(Tail(code[t]), After(Head(code[t]), Held(t)), {}, GateNow)
  <1>1. Plan(code[t], Held(t), {}, GateNow) /\ code[t] \in Seq(StepRecord)
    BY DEF Invariant, PlanOf, Shaped
  <1>2. /\ Head(code[t]) = code[t][1] /\ code[t][1] \in StepRecord /\ Allowed(code[t][1], Held(t))
        /\ code[t][1].do = "guarded" => Tail(code[t]) # <<>> /\ Head(Tail(code[t])).do = "disable"
        /\ code[t][1].do \in {"guarded", "poke"} => GateNow = "passed"
    BY <1>1, HeadPlan
  <1>3. Head(code[t]).do # "gate" =>
          Plan(Tail(code[t]), After(Head(code[t]), Held(t)), {}, GateNow)
    BY <1>1, <1>2, TailPlan
  <1> QED
    BY <1>1, <1>2, <1>3 DEF GateNow, Held

-----------------------------------------------------------------------------
\* The handlers and the functions of a script are plans.
LEMMA HandlerPlans ==
  /\ \A t \in Thread : \A h \in Handlers(t) : Plan(h, {}, {}, "ahead")
  /\ \A f \in LuaFunctions : Plan(f, {"lua"}, {"lua"}, "ahead")
  <1>1. Plan(UpdateGameReady, {}, {}, "ahead")
    BY UpdateCatalogPlan, RunLuaPlan, ConcatPlan DEF UpdateGameReady
  <1>2. Plan(Start, {}, {}, "ahead")
    BY <1>1, RunLuaPlan, ConcatPlan DEF Start
  <1>3. ASSUME NEW t \in Thread, NEW h \in Handlers(t)
        PROVE  Plan(h, {}, {}, "ahead")
    <2>1. CASE t = "v1"
      BY <1>3, <2>1, WriteTransactionPlan, TransactFrtkFieldsPlan, NativeCallPlan,
         BoardMutationPlan, CatalogCommandPlan, StatusCommandPlan, RunLuaPlan DEF Handlers
    <2>2. CASE t \in {"legacy", "tick"}
      BY <1>3, <2>2, RunLuaPlan DEF Handlers
    <2>3. CASE t = "game"
      BY <1>1, <1>3, <2>3 DEF Handlers
    <2>4. CASE t = "start"
      BY <1>2, <1>3, <2>4 DEF Handlers
    <2> QED
      BY <2>1, <2>2, <2>3, <2>4, ThreadAssumption
  <1> QED
    BY <1>3, LuaWriteU8Plan, LuaNativeCallPlan, LuaTableReadPlan, LuaTransactionPlan
    DEF LuaFunctions

\* What is left of a script only lets go of the Lua mutex.
LEMMA ScriptRestPlan == \A t : Plan(ScriptRest(t), {"lua"}, {}, "ahead")
  <1> DEFINE L == {"lua"}
             s == << Do("script"), Unlock({"lua"}) >>
             g == <<L, L, {}>>
  <1>1. s \in Seq(StepRecord) /\ Len(s) = 2
    BY DEF Unlock, Do, StepRecord, Kind, Changes, Mutex
  <1>2. g \in Seq(SUBSET Mutex) /\ Len(g) = 3 /\ g[1] = L /\ g[3] = {}
    <2>1. L \in SUBSET Mutex /\ {} \in SUBSET Mutex
      BY DEF Mutex
    <2> QED
      BY <2>1
  <1>3. ASSUME NEW n \in 1..2
        PROVE  Allowed(s[n], g[n]) /\ g[n + 1] = After(s[n], g[n])
    <2>1. Allowed(s[n], g[n])
      BY <1>3 DEF Unlock, Do, Allowed
    <2>2. L \ {"lua"} = {}
      OBVIOUS
    <2>3. g[2] = After(s[1], g[1]) /\ g[3] = After(s[2], g[2])
      BY <2>2, AfterLemma
    <2>4. g[n + 1] = After(s[n], g[n])
      BY <1>3, <2>3
    <2> QED
      BY <2>1, <2>4
  <1>4. \A n \in 1..2 : s[n].do \notin {"guarded", "poke"}
    BY DEF Unlock, Do
  <1> HIDE DEF g, s
  <1>5. Annotates(g, s, "ahead")
    BY <1>1, <1>2, <1>3, <1>4 DEF Annotates
  <1>6. Plan(s, {"lua"}, {}, "ahead")
    BY <1>1, <1>2, <1>5 DEF Plan
  <1> QED
    BY <1>6 DEF s, ScriptRest

\* A plan with the gate ahead is one now.
LEMMA AheadIsNow ==
  ASSUME NEW s, NEW from, NEW to, Plan(s, from, to, "ahead")
  PROVE  Plan(s, from, to, GateNow) /\ s \in Seq(StepRecord)
  <1>1. s \in Seq(StepRecord)
    BY DEF Plan
  <1>2. Plan(s, from, to, GateNow)
    BY GateLemma DEF GateNow
  <1> QED
    BY <1>1, <1>2

-----------------------------------------------------------------------------
(* Every action keeps the invariant.                                       *)

\* A request is accepted by a thread with nothing to do.
LEMMA AcceptStep ==
  ASSUME Invariant, NEW t \in Thread, Accept(t)
  PROVE  Invariant'
  <1>1. PICK h \in Handlers(t) : code' = [code EXCEPT ![t] = h]
    BY DEF Accept
  <1>2. Plan(h, {}, {}, "ahead") /\ h \in Seq(StepRecord)
    BY <1>1, HandlerPlans DEF Plan
  <1>3. code[t] = <<>> /\ UNCHANGED <<owner, disabled, busy, failed>>
        /\ outcome' = [outcome EXCEPT ![t] = "none"]
    BY DEF Accept
  <1>4. Held(t) = {}
    <2>1. Plan(<<>>, Held(t), {}, GateNow) /\ Held(t) \in SUBSET Mutex
      BY <1>3 DEF Invariant, PlanOf, Held
    <2> QED
      BY <2>1, EmptyPlan
  <1>5. Shaped'
    BY <1>1, <1>2, <1>3 DEF Invariant, Shaped
  <1>6. \A u \in Thread : Held(u)' = Held(u)
    BY <1>3 DEF Held
  <1>7. PlanOf(t)'
    <2>1. Plan(h, {}, {}, GateNow) /\ GateNow' = GateNow
      BY <1>2, <1>3, AheadIsNow DEF GateNow
    <2>2. code'[t] = h
      BY <1>1 DEF Invariant, Shaped
    <2> QED
      BY <1>4, <1>6, <2>1, <2>2 DEF PlanOf
  <1>8. BusyAt(t)' /\ ~Pending(t)
    BY <1>3 DEF Invariant, BusyAt, Pending, At
  <1>9. \A u \in Thread \ {t} :
          /\ code'[u] = code[u] /\ Held(u)' = Held(u)
          /\ outcome'[u] = outcome[u] /\ busy'[u] = busy[u]
    BY <1>1, <1>3, <1>6 DEF Invariant, Shaped
  <1> QED
    BY <1>3, <1>5, <1>7, <1>8, <1>9, LocalStep

\* A mutex is taken, or let go of.
LEMMA MutexStep ==
  ASSUME Invariant, NEW t \in Thread, Acquire(t) \/ Leave(t)
  PROVE  Invariant'
  <1> DEFINE step == Head(code[t])
  <1>1. /\ code[t] # <<>> /\ step.do \in {"lock", "unlock"} /\ code' = [code EXCEPT ![t] = Tail(@)]
        /\ UNCHANGED <<disabled, outcome, busy, failed>>
    BY DEF Acquire, Leave, At, Step
  <1>2. /\ step \in StepRecord /\ Tail(code[t]) \in Seq(StepRecord)
        /\ Plan(Tail(code[t]), After(step, Held(t)), {}, GateNow)
    BY <1>1, StepFacts
  <1>3. /\ owner' \in [Mutex -> Thread \cup {Free}]
        /\ Held(t)' = After(step, Held(t))
        /\ \A u \in Thread \ {t} : Held(u)' = Held(u)
    <2>1. step.on \in SUBSET Mutex
      BY <1>2 DEF StepRecord
    <2>2. CASE Acquire(t)
      <3>1. /\ step.do = "lock" /\ \A m \in step.on : owner[m] = Free
            /\ owner' = [m \in Mutex |-> IF m \in step.on THEN t ELSE owner[m]]
        BY <2>2 DEF Acquire, At
      <3>2. owner' \in [Mutex -> Thread \cup {Free}]
        BY <3>1 DEF Invariant, Shaped
      <3>3. Held(t)' = Held(t) \cup step.on
        BY <2>1, <3>1 DEF Held
      <3>4. \A u \in Thread \ {t} : Held(u)' = Held(u)
        BY <2>1, <3>1, FreeIsNoThread DEF Held
      <3> QED
        BY <3>1, <3>2, <3>3, <3>4 DEF After
    <2>3. CASE Leave(t)
      <3>1. step.do = "unlock" /\ Release(t, step.on)
        BY <2>3 DEF Leave, At
      <3> QED
        BY <2>1, <3>1, ReleaseLemma DEF Invariant, After
    <2> QED
      BY <2>2, <2>3
  <1>4. Shaped'
    BY <1>1, <1>2, <1>3 DEF Invariant, Shaped
  <1>5. PlanOf(t)'
    <2>1. code'[t] = Tail(code[t]) /\ GateNow' = GateNow
      BY <1>1 DEF Invariant, Shaped, GateNow
    <2> QED
      BY <1>2, <1>3, <2>1 DEF PlanOf
  <1>6. busy[t] = "no"
    BY <1>1 DEF Invariant, BusyAt, At, Shaped, Changes
  <1>7. BusyAt(t)' /\ ~Pending(t)
    BY <1>1, <1>6 DEF BusyAt, Pending, At
  <1>8. \A u \in Thread \ {t} :
          /\ code'[u] = code[u] /\ Held(u)' = Held(u)
          /\ outcome'[u] = outcome[u] /\ busy'[u] = busy[u]
    BY <1>1, <1>3 DEF Invariant, Shaped
  <1> QED
    BY <1>1, <1>4, <1>5, <1>7, <1>8, LocalStep

\* A request is refused: what the guards held is let go of, and a script gets
\* the error.
LEMMA RefuseStep ==
  ASSUME Invariant, NEW t \in Thread, Refuse(t), At(t, "gate") \/ At(t, "check"),
         UNCHANGED <<disabled, outcome, busy, failed>>
  PROVE  Invariant'
  <1>1. /\ Shaped /\ code[t] # <<>> /\ busy[t] = "no" /\ ~Pending(t)
    BY DEF Invariant, BusyAt, Pending, At, Shaped, Changes
  <1>2. CASE InScript(t)
    <2>1. Release(t, Mutex \ {"lua"}) /\ code' = [code EXCEPT ![t] = ScriptRest(t)]
      BY <1>2 DEF Refuse
    <2>2. /\ owner' \in [Mutex -> Thread \cup {Free}]
          /\ Held(t)' = Held(t) \ (Mutex \ {"lua"})
          /\ \A u \in Thread \ {t} : Held(u)' = Held(u)
      BY <1>1, <2>1, ReleaseLemma
    <2>3. Held(t)' = {"lua"}
      BY <1>2, <2>2 DEF InScript, Held, Mutex
    <2>4. Plan(ScriptRest(t), {"lua"}, {}, GateNow) /\ ScriptRest(t) \in Seq(StepRecord)
      BY ScriptRestPlan, AheadIsNow
    <2>5. code'[t] = ScriptRest(t) /\ \A u \in Thread \ {t} : code'[u] = code[u]
      BY <1>1, <2>1 DEF Shaped
    <2>6. PlanOf(t)'
      BY <2>3, <2>4, <2>5 DEF PlanOf, GateNow
    <2>7. Shaped'
      BY <1>1, <2>1, <2>2, <2>4 DEF Shaped
    <2>8. BusyAt(t)'
      BY <1>1 DEF BusyAt
    <2> QED
      BY <1>1, <2>2, <2>5, <2>6, <2>7, <2>8, LocalStep
  <1>3. CASE ~InScript(t)
    <2>1. Release(t, Mutex) /\ code' = [code EXCEPT ![t] = <<>>]
      BY <1>3 DEF Refuse
    <2>2. /\ owner' \in [Mutex -> Thread \cup {Free}]
          /\ Held(t)' = Held(t) \ Mutex
          /\ \A u \in Thread \ {t} : Held(u)' = Held(u)
      BY <1>1, <2>1, ReleaseLemma
    <2>3. Held(t)' = {}
      BY <2>2 DEF Held
    <2>4. Plan(<<>>, {}, {}, GateNow) /\ <<>> \in Seq(StepRecord)
      BY EmptyPlan
    <2>5. code'[t] = <<>> /\ \A u \in Thread \ {t} : code'[u] = code[u]
      BY <1>1, <2>1 DEF Shaped
    <2>6. PlanOf(t)'
      BY <2>3, <2>4, <2>5 DEF PlanOf, GateNow
    <2>7. Shaped'
      BY <1>1, <2>1, <2>2, <2>4 DEF Shaped
    <2>8. BusyAt(t)'
      BY <1>1 DEF BusyAt
    <2> QED
      BY <1>1, <2>2, <2>5, <2>6, <2>7, <2>8, LocalStep
  <1> QED
    BY <1>2, <1>3

\* A step that takes and lets go of nothing.
LEMMA PlainStep ==
  ASSUME Invariant, NEW t \in Thread, code[t] # <<>>, Head(code[t]).do \notin {"lock", "unlock"},
         Step(t), UNCHANGED <<owner, busy, failed>>, busy[t] = "no",
         Shaped', \A u \in Thread \ {t} : outcome'[u] = outcome[u],
         disabled => disabled', Pending(t) => disabled',
         Plan(Tail(code[t]), Held(t), {}, GateNow)
  PROVE  Invariant'
  <1>1. code'[t] = Tail(code[t]) /\ \A u \in Thread \ {t} : code'[u] = code[u]
    BY DEF Step, Invariant, Shaped
  <1>2. \A u \in Thread : Held(u)' = Held(u)
    BY DEF Held
  <1>3. PlanOf(t)' /\ BusyAt(t)'
    BY <1>1, <1>2 DEF PlanOf, GateNow, BusyAt
  <1> QED
    BY <1>1, <1>2, <1>3, LocalStep

\* The gate: where it is passed under the write mutex, no failed rollback waits
\* to be published.
LEMMA GateStep ==
  ASSUME Invariant, NEW t \in Thread, Gate(t)
  PROVE  Invariant'
  <1>1. /\ At(t, "gate") /\ UNCHANGED <<disabled, outcome, busy, failed>>
        /\ busy[t] = "no" /\ ~Pending(t)
    BY DEF Gate, Invariant, BusyAt, Pending, At, Shaped, Changes
  <1>2. CASE Refuse(t)
    BY <1>1, <1>2, RefuseStep
  <1>3. CASE ~disabled /\ Step(t) /\ UNCHANGED owner
    <2> DEFINE s == code[t]
    <2>1. /\ s # <<>> /\ Head(s) = s[1] /\ s[1].do = "gate" /\ Tail(s) \in Seq(StepRecord)
          /\ After(s[1], Held(t)) = Held(t)
      BY <1>1, StepFacts DEF At, After
    <2>2. Plan(s, Held(t), {}, GateNow)
      BY DEF Invariant, PlanOf
    <2>3. Plan(Tail(s), Held(t), {}, "passed")
      BY <2>1, <2>2, TailPlan
    <2>4. Plan(Tail(s), Held(t), {}, GateNow)
      <3>1. CASE "write" \notin Held(t)
        BY <2>3, <3>1, GateLemma DEF GateNow
      <3>2. CASE "write" \in Held(t)
        <4>1. "guarded" \notin failed
          BY <1>1, <1>3, <3>2, HeldByOne DEF Invariant, Accounted, Pending, Held
        <4> QED
          BY <2>3, <4>1 DEF GateNow
      <3> QED
        BY <3>1, <3>2
    <2>5. Shaped'
      BY <1>1, <1>3, <2>1 DEF Step, Invariant, Shaped
    <2> QED
      BY <1>1, <1>3, <2>1, <2>4, <2>5, PlainStep
  <1> QED
    BY <1>2, <1>3 DEF Gate

\* A check that may refuse.
LEMMA CheckStep ==
  ASSUME Invariant, NEW t \in Thread, Check(t)
  PROVE  Invariant'
  <1>1. /\ At(t, "check") /\ UNCHANGED <<disabled, outcome, busy, failed>>
        /\ busy[t] = "no" /\ ~Pending(t)
    BY DEF Check, Invariant, BusyAt, Pending, At, Shaped, Changes
  <1>2. CASE Refuse(t)
    BY <1>1, <1>2, RefuseStep
  <1>3. CASE Step(t) /\ UNCHANGED owner
    <2>1. /\ code[t] # <<>> /\ Head(code[t]).do = "check" /\ Tail(code[t]) \in Seq(StepRecord)
          /\ Plan(Tail(code[t]), After(Head(code[t]), Held(t)), {}, GateNow)
      BY <1>1, StepFacts DEF At
    <2>2. Plan(Tail(code[t]), Held(t), {}, GateNow)
      BY <2>1 DEF After
    <2>3. Shaped'
      BY <1>1, <1>3, <2>1 DEF Step, Invariant, Shaped
    <2> QED
      BY <1>1, <1>3, <2>1, <2>2, <2>3, PlainStep
  <1> QED
    BY <1>2, <1>3 DEF Check

\* The flag is set when the guarded write of the same thread was unverified.
LEMMA DisableStep ==
  ASSUME Invariant, NEW t \in Thread, Disable(t)
  PROVE  Invariant'
  <1>1. /\ At(t, "disable") /\ UNCHANGED <<owner, outcome, busy, failed>> /\ Step(t)
        /\ disabled' = (disabled \/ outcome[t] = "unverified") /\ busy[t] = "no"
    BY DEF Disable, Invariant, BusyAt, At, Shaped, Changes
  <1>2. /\ code[t] # <<>> /\ Head(code[t]).do = "disable" /\ Tail(code[t]) \in Seq(StepRecord)
        /\ Plan(Tail(code[t]), After(Head(code[t]), Held(t)), {}, GateNow)
    BY <1>1, StepFacts DEF At
  <1>3. Plan(Tail(code[t]), Held(t), {}, GateNow)
    BY <1>2 DEF After
  <1>4. Shaped' /\ (disabled => disabled') /\ (Pending(t) => disabled')
    BY <1>1, <1>2 DEF Step, Invariant, Shaped, Pending
  <1> QED
    BY <1>1, <1>2, <1>3, <1>4, PlainStep

\* A script returns, or calls one of the host's functions.
LEMMA ScriptStep ==
  ASSUME Invariant, NEW t \in Thread, Script(t)
  PROVE  Invariant'
  <1>1. /\ At(t, "script") /\ UNCHANGED <<owner, disabled, outcome, busy, failed>>
        /\ busy[t] = "no" /\ ~Pending(t)
    BY DEF Script, Invariant, BusyAt, Pending, At, Shaped, Changes
  <1>2. /\ code[t] # <<>> /\ Head(code[t]).do = "script" /\ Tail(code[t]) \in Seq(StepRecord)
        /\ code[t] \in Seq(StepRecord) /\ Held(t) = {"lua"}
        /\ Plan(Tail(code[t]), After(Head(code[t]), Held(t)), {}, GateNow)
    BY <1>1, StepFacts DEF At, Allowed
  <1>3. CASE Step(t)
    <2>1. Plan(Tail(code[t]), Held(t), {}, GateNow)
      BY <1>2 DEF After
    <2>2. Shaped'
      BY <1>1, <1>2, <1>3 DEF Step, Invariant, Shaped
    <2> QED
      BY <1>1, <1>2, <1>3, <2>1, <2>2, PlainStep
  <1>4. ASSUME NEW f \in LuaFunctions, code' = [code EXCEPT ![t] = f \o @]
        PROVE  Invariant'
    <2>1. Plan(code[t], {"lua"}, {}, "ahead")
      <3>1. Plan(code[t], {"lua"}, {}, GateNow)
        BY <1>2 DEF Invariant, PlanOf
      <3> QED
        BY <3>1, GateLemma DEF GateNow
    <2>2. Plan(f \o code[t], {"lua"}, {}, "ahead")
      BY <2>1, HandlerPlans, ConcatPlan
    <2>3. /\ code'[t] = f \o code[t] /\ \A u \in Thread \ {t} : code'[u] = code[u]
          /\ \A u \in Thread : Held(u)' = Held(u)
      BY <1>1, <1>4 DEF Invariant, Shaped, Held
    <2>4. Plan(f \o code[t], {"lua"}, {}, GateNow) /\ f \o code[t] \in Seq(StepRecord)
      BY <2>2, AheadIsNow
    <2>5. PlanOf(t)' /\ BusyAt(t)'
      BY <1>1, <1>2, <2>3, <2>4 DEF PlanOf, GateNow, BusyAt
    <2>6. Shaped'
      BY <1>1, <1>4, <2>4 DEF Invariant, Shaped
    <2> QED
      BY <1>1, <2>3, <2>5, <2>6, LocalStep
  <1> QED
    BY <1>3, <1>4 DEF Script

\* A change begins.
LEMMA BeginStep ==
  ASSUME Invariant, NEW t \in Thread, Begin(t)
  PROVE  Invariant'
  <1>1. PICK k \in Changes : At(t, k) /\ busy' = [busy EXCEPT ![t] = k]
    BY DEF Begin
  <1>2. UNCHANGED <<owner, disabled, code, outcome, failed>>
    BY DEF Begin
  <1>3. Shaped' /\ busy'[t] = k /\ \A u \in Thread \ {t} : busy'[u] = busy[u]
    BY <1>1, <1>2 DEF Invariant, Shaped
  <1>4. \A u \in Thread : Held(u)' = Held(u)
    BY <1>2 DEF Held
  <1>5. PlanOf(t)' /\ BusyAt(t)' /\ ~Pending(t)
    BY <1>1, <1>2, <1>3, <1>4 DEF Invariant, PlanOf, GateNow, BusyAt, Pending, At, Changes
  <1> QED
    BY <1>2, <1>3, <1>4, <1>5, LocalStep

\* A change ends; a guarded write that could not be verified is followed by the
\* publication of it, and no other thread has passed a gate.
LEMMA EndStep ==
  ASSUME Invariant, NEW t \in Thread, End(t)
  PROVE  Invariant'
  <1> DEFINE s == code[t]
  <1>1. PICK bad \in BOOLEAN :
          /\ outcome' = [outcome EXCEPT ![t] = IF bad THEN "unverified" ELSE "other"]
          /\ failed' = IF bad THEN failed \cup {busy[t]} ELSE failed
    BY DEF End
  <1>2. /\ busy[t] # "no" /\ busy' = [busy EXCEPT ![t] = "no"] /\ Step(t)
        /\ UNCHANGED <<owner, disabled>>
    BY DEF End
  <1>3. busy[t] \in Changes /\ At(t, busy[t])
    BY <1>2 DEF Invariant, Shaped, BusyAt
  <1>4. /\ s # <<>> /\ Head(s) = s[1] /\ Head(s).do = busy[t] /\ Tail(s) \in Seq(StepRecord)
        /\ Allowed(Head(s), Held(t))
        /\ busy[t] = "guarded" => Tail(s) # <<>> /\ Head(Tail(s)).do = "disable"
        /\ Plan(Tail(s), After(Head(s), Held(t)), {}, GateNow)
        /\ After(Head(s), Held(t)) = Held(t)
    BY <1>3, StepFacts DEF At, Changes, After
  <1>5. /\ code'[t] = Tail(s) /\ \A u \in Thread \ {t} : code'[u] = code[u]
        /\ \A u \in Thread : Held(u)' = Held(u)
        /\ busy'[t] = "no" /\ \A u \in Thread \ {t} : busy'[u] = busy[u]
        /\ \A u \in Thread \ {t} : outcome'[u] = outcome[u]
    BY <1>1, <1>2 DEF Step, Invariant, Shaped, Held
  <1>6. Shaped'
    BY <1>1, <1>2, <1>4 DEF Step, Invariant, Shaped
  <1>7. BusyAt(t)' /\ ~Pending(t)
    BY <1>3, <1>5 DEF BusyAt, Pending, At, Changes
  <1>8. CASE ~(bad /\ busy[t] = "guarded")
    <2>1. "guarded" \in failed' <=> "guarded" \in failed
      BY <1>1, <1>8
    <2>2. PlanOf(t)'
      BY <1>4, <1>5, <2>1 DEF PlanOf, GateNow
    <2> QED
      BY <1>2, <1>5, <1>6, <1>7, <2>1, <2>2, LocalStep
  <1>9. CASE bad /\ busy[t] = "guarded"
    <2>1. "guarded" \in failed' /\ GateNow' = "ahead" /\ "write" \in Held(t)
      BY <1>1, <1>4, <1>9 DEF GateNow, Allowed
    <2>2. PlanOf(t)'
      <3>1. Plan(s, Held(t), {}, GateNow)
        BY DEF Invariant, PlanOf
      <3>2. Plan(Tail(s), Held(t), {}, "ahead")
        BY <1>4, <1>9, <3>1, TailPlan
      <3> QED
        BY <1>5, <2>1, <3>2 DEF PlanOf
    <2>3. ASSUME NEW u \in Thread \ {t}
          PROVE  PlanOf(u)' /\ BusyAt(u)'
      <3>1. "write" \notin Held(u)
        BY <2>1, HeldByOne DEF Held
      <3>2. Plan(code[u], Held(u), {}, GateNow)
        BY DEF Invariant, PlanOf
      <3>3. Plan(code[u], Held(u), {}, "ahead")
        BY <3>1, <3>2, GateLemma DEF GateNow
      <3>4. PlanOf(u)'
        BY <1>5, <2>1, <3>3 DEF PlanOf
      <3>5. BusyAt(u)'
        BY <1>5 DEF Invariant, BusyAt, At
      <3> QED
        BY <3>4, <3>5
    <2>4. Pending(t)'
      <3>1. outcome'[t] = "unverified"
        BY <1>1, <1>9 DEF Invariant, Shaped
      <3> QED
        BY <1>4, <1>5, <1>9, <2>1, <3>1 DEF Pending, At
    <2> QED
      BY <1>6, <1>7, <2>2, <2>3, <2>4 DEF Invariant, Accounted
  <1> QED
    BY <1>8, <1>9

-----------------------------------------------------------------------------
\* At first no thread has anything to do, and no mutex is held.
LEMMA InitInvariant == Init => Invariant
  <1> SUFFICES ASSUME Init PROVE Invariant
    OBVIOUS
  <1>1. <<>> \in Seq(StepRecord)
    OBVIOUS
  <1>2. Shaped
    BY <1>1 DEF Init, Shaped
  <1>3. ASSUME NEW t \in Thread
        PROVE  PlanOf(t) /\ BusyAt(t)
    <2>1. Held(t) = {} /\ {} \in SUBSET Mutex
      BY FreeIsNoThread DEF Init, Held
    <2>2. Plan(<<>>, {}, {}, GateNow)
      BY <2>1, EmptyPlan
    <2> QED
      BY <2>1, <2>2 DEF Init, PlanOf, BusyAt
  <1> QED
    BY <1>2, <1>3 DEF Init, Invariant, Accounted

LEMMA NextInvariant ==
  ASSUME Invariant, [Next]_vars
  PROVE  Invariant'
  <1>1. ASSUME NEW t \in Thread, Run(t)
        PROVE  Invariant'
    BY <1>1, AcceptStep, MutexStep, GateStep, CheckStep, BeginStep, EndStep, DisableStep, ScriptStep
    DEF Run
  <1>2. CASE UNCHANGED vars
    BY <1>2 DEF vars, Invariant, Shaped, PlanOf, BusyAt, Accounted, Pending, At, Held, GateNow
  <1> QED
    BY <1>1, <1>2 DEF Next, Quiescent

-----------------------------------------------------------------------------
(* What follows of every behaviour.                                        *)

LEMMA InvariantHolds == Spec => []Invariant
  BY InitInvariant, NextInvariant, PTL DEF Spec

\* std::lock_guard and std::scoped_lock of lua_host.cpp: no thread asks for a
\* mutex that does not come after all it holds.
THEOREM LocksInOrder == Spec => []LockOrder
  <1>1. Invariant => LockOrder
    <2> SUFFICES ASSUME Invariant, NEW t \in Thread, At(t, "lock"),
                        NEW m \in Head(code[t]).on, NEW h \in Held(t)
                 PROVE  Rank(h) < Rank(m)
      BY DEF LockOrder
    <2> QED
      BY StepFacts DEF At, Allowed
  <1> QED
    BY InvariantHolds, <1>1, PTL

\* A change of one kind is made only by the thread that holds its mutex.
LEMMA BusyHolds ==
  ASSUME Invariant, NEW t \in Thread
  PROVE  /\ busy[t] \in {"guarded", "poke", "board"} => "write" \in Held(t)
         /\ busy[t] \in {"native", "board"} => "native" \in Held(t)
         /\ busy[t] \in {"guarded", "poke"} => "guarded" \notin failed
  <1> SUFFICES ASSUME busy[t] # "no"
               PROVE  /\ busy[t] \in {"guarded", "poke", "board"} => "write" \in Held(t)
                      /\ busy[t] \in {"native", "board"} => "native" \in Held(t)
                      /\ busy[t] \in {"guarded", "poke"} => "guarded" \notin failed
    OBVIOUS
  <1>1. At(t, busy[t])
    BY DEF Invariant, BusyAt
  <1> QED
    BY <1>1, StepFacts DEF At, Allowed

\* A set without two members has at most one.
LEMMA AtMostOne ==
  ASSUME NEW S, \A x, y \in S : x = y
  PROVE  Cardinality(S) <= 1
  <1>1. CASE S = {}
    BY <1>1, FS_EmptySet
  <1>2. ASSUME NEW x \in S
        PROVE  Cardinality(S) <= 1
    <2>1. S = {x}
      OBVIOUS
    <2> QED
      BY <2>1, FS_Singleton
  <1> QED
    BY <1>1, <1>2

\* g_host_write_mutex and g_native_call_mutex: guarded writes, single-byte
\* writes and board mutations never overlap, nor do native calls with each other
\* or with a board mutation.
THEOREM WritersExclude == Spec => []OneWriterAtATime
  <1>1. Invariant => OneWriterAtATime
    <2> SUFFICES ASSUME Invariant PROVE OneWriterAtATime
      OBVIOUS
    <2>1. \A t, u \in Busy({"guarded", "poke", "board"}) : t = u
      BY BusyHolds, HeldByOne DEF Busy, Mutex
    <2>2. \A t, u \in Busy({"native", "board"}) : t = u
      BY BusyHolds, HeldByOne DEF Busy, Mutex
    <2> QED
      BY <2>1, <2>2, AtMostOne DEF OneWriterAtATime
  <1> QED
    BY InvariantHolds, <1>1, PTL

\* docs/safety.md, "permanently sets sessionWritesDisabled": the flag is set
\* before the write mutex is let go of, and every guarded or single-byte write
\* reads it after taking that mutex.
THEOREM NoWriteAfterFailedRollback == Spec => UnverifiedRollbackStopsGuardedWrites
  <1>1. ASSUME Invariant, [Next]_vars
        PROVE  [ \A t \in Thread :
                   busy[t] = "no" /\ busy'[t] \in {"guarded", "poke"} => "guarded" \notin failed ]_vars
    <2> SUFFICES ASSUME NEW t \in Thread, busy[t] = "no", busy'[t] \in {"guarded", "poke"}
                 PROVE  "guarded" \notin failed
      OBVIOUS
    <2>1. busy' # busy
      OBVIOUS
    <2>2. PICK u \in Thread : Run(u)
      BY <1>1, <2>1 DEF Next, Quiescent, vars
    <2>3. Begin(u) \/ End(u)
      BY <2>1, <2>2 DEF Run, Accept, Acquire, Leave, Gate, Check, Disable, Script
    <2>4. PICK k : busy' = [busy EXCEPT ![u] = k] /\ (k = "no" \/ (k \in Changes /\ At(u, k)))
      <3>1. CASE Begin(u)
        BY <3>1 DEF Begin
      <3>2. CASE End(u)
        BY <3>2 DEF End
      <3> QED
        BY <2>3, <3>1, <3>2
    <2>5. u = t /\ busy'[t] = k
      BY <1>1, <2>4 DEF Invariant, Shaped
    <2>6. At(t, k) /\ k \in {"guarded", "poke"}
      BY <2>4, <2>5
    <2> QED
      BY <1>1, <2>6, StepFacts DEF At
  <1> QED
    BY InvariantHolds, <1>1, PTL DEF Spec, UnverifiedRollbackStopsGuardedWrites
=============================================================================
