---------------------------- MODULE StakingProofs ---------------------------
(***************************************************************************)
(* Proofs about Staking, for every set of delegators and validators, every *)
(* genesis, unbonding time, slash and number of entries: the ve records    *)
(* agree with the SDK's until an entry matures or a restart loses them.    *)
(***************************************************************************)
EXTENDS Staking, SequenceTheorems, TLAPS

IsSeq(q) == \E S : q \in Seq(S)

\* Every record is a sequence with as many entries as its ve record.
Aligned ==
    /\ \A p \in Pairs : IsSeq(ubd[p]) /\ Len(ubd[p]) = veUbd[p]
    /\ \A r \in Routes : IsSeq(red[r]) /\ Len(red[r]) = veRed[r]

\* The inductive invariant.  Once records are unpaired nothing is known of them
\* but where they are kept; only a restart without entries pairs them again.
Inv ==
    /\ DOMAIN ubd = Pairs /\ DOMAIN veUbd = Pairs
    /\ DOMAIN red = Routes /\ DOMAIN veRed = Routes
    /\ unpaired \in BOOLEAN
    /\ ~unpaired => Aligned /\ halted # "inconsistent ve records"

-----------------------------------------------------------------------------
\* A function on 1..n is a sequence of length n.
LEMMA FunctionLen ==
    ASSUME NEW n \in Nat, NEW q, q = [i \in 1..n |-> q[i]]
    PROVE  IsSeq(q) /\ Len(q) = n
<1>. DEFINE S == {q[i] : i \in 1..n}
<1>1. q \in [1..n -> S]
  BY Zenon
<1>2. q \in Seq(S)
  BY <1>1, SeqDef, Zenon
<1>3. Len(q) \in Nat /\ DOMAIN q = 1..Len(q)
  BY <1>2, LenProperties, Zenon
<1>4. DOMAIN q = 1..n
  BY <1>1, Zenon
<1>5. Len(q) = n
  BY <1>3, <1>4, SMTT(30)
<1>. QED
  BY <1>2, <1>5, SMTT(30) DEF IsSeq

\* A sequence has a length.
LEMMA SeqLen ==
    ASSUME NEW q, IsSeq(q)
    PROVE  Len(q) \in Nat
<1>1. PICK S : q \in Seq(S)
  BY DEF IsSeq
<1>. QED
  BY <1>1, LenProperties, Zenon

\* Append makes a sequence one longer.
LEMMA AppendLen ==
    ASSUME NEW q, IsSeq(q), NEW e
    PROVE  IsSeq(Append(q, e)) /\ Len(Append(q, e)) = Len(q) + 1
<1>1. PICK S : q \in Seq(S)
  BY DEF IsSeq
<1>2. q \in Seq(S \cup {e})
  BY <1>1, SeqDef, SMTT(30)
<1>. HIDE DEF IsSeq
<1>3. Append(q, e) \in Seq(S \cup {e}) /\ Len(Append(q, e)) = Len(q) + 1
  BY <1>2, AppendProperties, SMTT(30)
<1>. QED
  BY <1>3, Zenon DEF IsSeq

\* Slashing the entries of a record keeps their number.
LEMMA SlashLen ==
    ASSUME NEW q, IsSeq(q), NEW factor, NEW ago
    PROVE  /\ IsSeq(SlashUnbondingDelegation(q, factor, ago))
           /\ Len(SlashUnbondingDelegation(q, factor, ago)) = Len(q)
<1>. DEFINE t == SlashUnbondingDelegation(q, factor, ago)
<1>1. Len(q) \in Nat
  BY SeqLen, Zenon
<1>2. t = [i \in 1..Len(q) |-> t[i]]
  BY Zenon DEF SlashUnbondingDelegation
<1>. HIDE DEF t
<1>3. IsSeq(t) /\ Len(t) = Len(q)
  BY <1>1, <1>2, FunctionLen, Zenon
<1>. QED
  BY <1>3, Zenon DEF t

\* The end of a block keeps the number of the entries of a record in which none is
\* mature.
LEMMA AgedLen ==
    ASSUME NEW q, IsSeq(q), ~HasMature(q), NEW gap
    PROVE  /\ IsSeq(Aged(Completed(q), gap))
           /\ Len(Aged(Completed(q), gap)) = Len(q)
<1>. DEFINE t == Aged(q, gap)
<1>1. Len(q) \in Nat
  BY SeqLen, Zenon
<1>2. t = [i \in 1..Len(q) |-> t[i]]
  BY DEF Aged
<1>3. Completed(q) = q
  BY DEF Completed
<1>. HIDE DEF t
<1>4. IsSeq(t) /\ Len(t) = Len(q)
  BY <1>1, <1>2, FunctionLen, Zenon
<1>. QED
  BY <1>3, <1>4, Zenon DEF t

-----------------------------------------------------------------------------
\* Actions that leave the records, the flag and the panic alone preserve it.
LEMMA RecordsUntouched ==
    ASSUME Inv, UNCHANGED <<records, halted, unpaired>>
    PROVE  Inv'
BY Zenon DEF Inv, Aligned, records

\* Undelegate adds one entry to both records of a pair.
LEMMA UndelegateStep ==
    ASSUME Inv, NEW d \in Delegators, NEW v \in Validators, NEW amt \in Amounts,
           Undelegate(d, v, amt)
    PROVE  Inv'
<1>. DEFINE p == <<d, v>>
            got == IssuedTokens(validator[v], SharesFromTokens(validator[v], amt))
            e == [left |-> UnbondingTime, age |-> 0, initial |-> got, balance |-> got]
<1>1. p \in Pairs
  BY Zenon DEF Pairs
<1>2. /\ ubd' = [ubd EXCEPT ![p] = Append(ubd[p], e)]
      /\ veUbd' = [veUbd EXCEPT ![p] = veUbd[p] + 1]
      /\ Len(ubd'[p]) = veUbd'[p]
      /\ UNCHANGED <<red, veRed, halted, unpaired>>
  BY Zenon DEF Undelegate, history
<1>. HIDE DEF p, e
<1>3. ASSUME ~unpaired
      PROVE  IsSeq(Append(ubd[p], e))
  BY <1>1, <1>3, AppendLen, Zenon DEF Inv, Aligned
<1>. QED
  BY <1>1, <1>2, <1>3, Zenon DEF Inv, Aligned

\* BeginRedelegate adds one entry to both records of a route, or to neither.
LEMMA BeginRedelegateStep ==
    ASSUME Inv, NEW d \in Delegators, NEW src \in Validators, NEW dst \in Validators,
           NEW amt \in Amounts, BeginRedelegate(d, src, dst, amt)
    PROVE  Inv'
<1>. DEFINE r == <<d, src, dst>>
<1>1. r \in Routes
  BY Zenon DEF BeginRedelegate
<1>2. PICK e : /\ \/ UNCHANGED <<red, veRed>>
                  \/ /\ red' = [red EXCEPT ![r] = Append(red[r], e)]
                     /\ veRed' = [veRed EXCEPT ![r] = veRed[r] + 1]
                     /\ Len(red'[r]) = veRed'[r]
               /\ UNCHANGED <<ubd, veUbd, halted, unpaired>>
  BY Zenon DEF BeginRedelegate, history
<1>. HIDE DEF r
<1>3. CASE UNCHANGED <<red, veRed>>
  BY <1>2, <1>3, Zenon DEF Inv, Aligned
<1>4. CASE /\ red' = [red EXCEPT ![r] = Append(red[r], e)]
           /\ veRed' = [veRed EXCEPT ![r] = veRed[r] + 1]
           /\ Len(red'[r]) = veRed'[r]
  <2>1. ASSUME ~unpaired
        PROVE  IsSeq(Append(red[r], e))
    BY <1>1, <2>1, AppendLen, Zenon DEF Inv, Aligned
  <2>. QED
    BY <1>1, <1>2, <1>4, <2>1, ZenonT(30) DEF Inv, Aligned
<1>. QED
  BY <1>2, <1>3, <1>4, Zenon

\* Slash changes entries of the validator's records, not their number.
LEMMA SlashStep ==
    ASSUME Inv, NEW v, NEW power, NEW factor, NEW ago, Slash(v, power, factor, ago)
    PROVE  Inv'
<1>. DEFINE cut == [p \in Pairs |-> IF p[2] = v
                        THEN SlashUnbondingDelegation(ubd[p], factor, ago) ELSE ubd[p]]
<1>1. ubd' = cut /\ UNCHANGED <<veUbd, red, veRed, halted, unpaired>>
  BY Zenon DEF Slash
<1>2. ASSUME ~unpaired, NEW p \in Pairs
      PROVE  IsSeq(cut[p]) /\ Len(cut[p]) = veUbd[p]
  <2>1. IsSeq(ubd[p]) /\ Len(ubd[p]) = veUbd[p]
    BY <1>2, Zenon DEF Inv, Aligned
  <2>2. cut[p] = SlashUnbondingDelegation(ubd[p], factor, ago) \/ cut[p] = ubd[p]
    BY Zenon
  <2>. HIDE DEF cut
  <2>. QED
    BY <2>1, <2>2, SlashLen, SMTT(30)
<1>. HIDE DEF cut
<1>3. DOMAIN cut = Pairs
  BY DEF cut
<1>. QED
  BY <1>1, <1>2, <1>3, ZenonT(30) DEF Inv, Aligned

\* While the records are paired no slash finds one that differs.
LEMMA SlashPanicsStep ==
    ASSUME Inv, NEW v \in Validators, NEW factor, NEW ago, SlashPanics(v, factor, ago)
    PROVE  Inv'
<1>1. ASSUME ~unpaired
      PROVE  ~Mismatched(v)
  BY <1>1, Zenon DEF Inv, Aligned, Mismatched, Pairs
<1>2. UNCHANGED <<ubd, veUbd, red, veRed, unpaired>>
  BY DEF SlashPanics, records, history
<1>3. ~unpaired => halted' = "destination validator not found"
  BY <1>1, Zenon DEF SlashPanics
<1>. QED
  BY <1>2, <1>3, ZenonT(30) DEF Inv, Aligned

\* The end of a block keeps records apart from those with a mature entry, and
\* one such record unpairs them.
LEMMA EndBlockStep ==
    ASSUME Inv, NEW bonded, NEW gap, EndBlock(bonded, gap)
    PROVE  Inv'
<1>1. /\ ubd' = [p \in Pairs |-> Aged(Completed(ubd[p]), gap)]
      /\ red' = [r \in Routes |-> Aged(Completed(red[r]), gap)]
      /\ unpaired' = \/ unpaired
                     \/ \E p \in Pairs : HasMature(ubd[p])
                     \/ \E r \in Routes : HasMature(red[r])
      /\ UNCHANGED <<veUbd, veRed, halted>>
  BY Zenon DEF EndBlock
<1>2. ASSUME ~unpaired'
      PROVE  /\ ~unpaired
             /\ \A p \in Pairs : ~HasMature(ubd[p])
             /\ \A r \in Routes : ~HasMature(red[r])
  BY <1>1, <1>2, Zenon
<1>3. ASSUME ~unpaired', NEW p \in Pairs
      PROVE  IsSeq(ubd'[p]) /\ Len(ubd'[p]) = veUbd[p]
  BY <1>1, <1>2, <1>3, AgedLen, ZenonT(30) DEF Inv, Aligned
<1>4. ASSUME ~unpaired', NEW r \in Routes
      PROVE  IsSeq(red'[r]) /\ Len(red'[r]) = veRed[r]
  BY <1>1, <1>2, <1>4, AgedLen, ZenonT(30) DEF Inv, Aligned
<1>5. unpaired' \in BOOLEAN
  BY <1>1, Zenon
<1>6. DOMAIN ubd' = Pairs /\ DOMAIN red' = Routes
  BY <1>1, SMTT(30)
<1>. QED
  BY <1>1, <1>2, <1>3, <1>4, <1>5, <1>6, ZenonT(30) DEF Inv, Aligned

\* A restart without entries in flight starts with empty records on both sides.
LEMMA RestartStep ==
    ASSUME Inv, Restart
    PROVE  Inv'
<1>1. IsSeq(<<>>) /\ Len(<<>>) = 0
  <2>1. <<>> \in Seq({})
    BY EmptySeq, Zenon
  <2>. QED
    BY <2>1, EmptySeq, Zenon DEF IsSeq
<1>2. /\ veUbd' = [p \in Pairs |-> 0] /\ veRed' = [r \in Routes |-> 0]
      /\ unpaired' = \/ \E p \in Pairs : ubd[p] # <<>>
                     \/ \E r \in Routes : red[r] # <<>>
      /\ UNCHANGED <<ubd, red, halted>>
      /\ halted = "no"
  BY Zenon DEF Restart, Running
<1>. QED
  BY <1>1, <1>2, Zenon DEF Inv, Aligned

\* Genesis has no entries.
LEMMA InitInv ==
    ASSUME Init
    PROVE  Inv
<1>1. IsSeq(<<>>) /\ Len(<<>>) = 0
  <2>1. <<>> \in Seq({})
    BY EmptySeq, Zenon
  <2>. QED
    BY <2>1, EmptySeq, SMTT(30) DEF IsSeq
<1>2. /\ ubd = [p \in Pairs |-> <<>>] /\ veUbd = [p \in Pairs |-> 0]
      /\ red = [r \in Routes |-> <<>>] /\ veRed = [r \in Routes |-> 0]
      /\ halted = "no" /\ unpaired = FALSE
  BY Zenon DEF Init
<1>3. Aligned
  BY <1>1, <1>2, SMTT(30) DEF Aligned
<1>. QED
  BY <1>2, <1>3, Zenon DEF Inv

\* PairedUntilMature for every behaviour: Undelegate, BeginRedelegation and the
\* slashing of entries keep the two records of x/staking and the SDK in step,
\* and only the SDK's end blocker or a restart parts them; until then no slash
\* panics on ve records.
THEOREM RecordsStayPaired == Spec => []PairedUntilMature
<1>1. Inv /\ [Next]_vars => Inv'
  <2>. SUFFICES ASSUME Inv, [Next]_vars
                PROVE  Inv'
    OBVIOUS
  <2>1. CASE UNCHANGED vars
    BY <2>1, RecordsUntouched, SMTT(30) DEF vars, records
  <2>2. ASSUME NEW d \in Delegators, NEW v \in Validators, NEW amt \in Amounts,
               Delegate(d, v, amt) \/ CreateValidator(d, v, amt)
        PROVE  Inv'
    BY <2>2, RecordsUntouched, Zenon DEF Delegate, CreateValidator, history
  <2>. QED
    BY <2>1, <2>2, UndelegateStep, BeginRedelegateStep, SlashStep, SlashPanicsStep,
       EndBlockStep, RestartStep, SMTT(30) DEF Next
<1>2. Inv => PairedUntilMature
  BY DEF Inv, Aligned, PairedUntilMature
<1>. QED
  BY <1>1, <1>2, InitInv, PTL DEF Spec
=============================================================================
