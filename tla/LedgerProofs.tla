---------------------------- MODULE LedgerProofs ----------------------------
(***************************************************************************)
(* Agreement for every number of validators for which the quorum of        *)
(* ConsensusState::new is large enough, as long as nobody changes its view *)
(* (consensus_quorum and consensus_views show that both are needed).  And  *)
(* the collateral that is staked for tokens: for any owners, any number of *)
(* deposits, any width of the integers and any lock period, it covers what *)
(* it says and is paid out once.                                           *)
(*                                                                         *)
(* try_commit looks at the number of votes only, and votes outlive the     *)
(* height they were cast at.  The argument is about the correct validators *)
(* behind them: all blocks that have, or once had, a quorum of votes have  *)
(* a correct voter in common with each other, who votes once at a height.  *)
(*                                                                         *)
(* With fewer than four validators the quorum is everyone.  Then agreement *)
(* holds with view changes as well, by another argument (AllInv).  Where   *)
(* there is agreement and all validators are correct, chains are linked.   *)
(***************************************************************************)
EXTENDS Consensus, Bonds, FiniteSums, FiniteSetTheorems, SequenceTheorems, TLAPS

-----------------------------------------------------------------------------
(* Bonds *)

BondsType ==
    /\ status \in [BondIds -> {"unused", "active", "slashed", "withdrawn"}]
    /\ owner \in [BondIds -> Owners \cup {None}]
    /\ amount \in [BondIds -> Nat]
    /\ exposure \in [BondIds -> Nat]
    /\ requested \in [BondIds -> Nat]
    /\ owner_bonds \in [Owners -> BondIds \cup {None}]
    /\ now \in Nat
    /\ offline \in [BondIds -> Nat]

\* An id that was not drawn yet is nobody's, all others have an owner.
FreshInv ==
    \A b \in BondIds :
        IF status[b] = "unused"
        THEN owner[b] = None /\ offline[b] = 0 /\ exposure[b] = 0
        ELSE owner[b] \in Owners

\* As long as an owner is not slashed, the exposure of the active bond is what is
\* offline against it, and nothing is offline against one that was paid out.
ExposureInv ==
    \A b \in BondIds : Honest(owner[b]) =>
        /\ status[b] = "active" => exposure[b] = offline[b]
        /\ status[b] = "withdrawn" => offline[b] = 0

BondsInv == BondsType /\ FreshInv /\ OneActiveBond /\ ExposureInv

-----------------------------------------------------------------------------

\* It holds for the empty registry.
LEMMA BondsInitInv == BondsInit => BondsInv
BY BondsAssumption DEF BondsInit, BondsInv, BondsType, FreshInv, OneActiveBond, ExposureInv, HasBond

\* Neither an owner nor a slashing is ever taken back.
LEMMA HonestBefore ==
    ASSUME NEW o, Honest(o)',
           \A b \in BondIds : owner[b] = o =>
               owner'[b] = o /\ (status[b] = "slashed" => status'[b] = "slashed")
    PROVE  Honest(o)
BY DEF Honest

\* deposit: the owner is looked up by a bond that is not active, or by none.
LEMMA DepositInv ==
    ASSUME BondsInv, NEW o \in Owners, NEW a \in U64, Deposit(o, a)
    PROVE  BondsInv'
<1> USE DEF BondsInv
<1>1. PICK b \in Drawn :
        /\ status' = [status EXCEPT ![b] = "active"]
        /\ owner' = [owner EXCEPT ![b] = o]
        /\ amount' = [amount EXCEPT ![b] = a]
        /\ owner_bonds' = [owner_bonds EXCEPT ![o] = b]
    BY ZenonT(40) DEF Deposit
<1>2. b \in BondIds /\ status[b] = "unused" /\ b # None /\ a \in Nat
    BY BondsAssumption DEF Drawn, U64
<1>3. UNCHANGED <<exposure, requested, now, offline>> /\ ~HasActiveBond(o)
    BY DEF Deposit
<1>4. BondsType'
    BY <1>1, <1>2, <1>3 DEF BondsType
<1>5. FreshInv'
    BY <1>1, <1>2, <1>3, SMTT(30) DEF BondsType, FreshInv
<1>6. OneActiveBond'
    <2>1. \A c \in BondIds : status'[c] = "active" => owner_bonds'[owner'[c]] = c
        BY <1>1, <1>2, <1>3, BondsAssumption, SMTT(30)
           DEF BondsType, FreshInv, OneActiveBond, HasActiveBond
    <2>2. \A p \in Owners : owner_bonds'[p] # None =>
            HasBond(p)' /\ owner'[owner_bonds'[p]] = p
        BY <1>1, <1>2, BondsAssumption, SMTT(30) DEF BondsType, OneActiveBond, HasBond
    <2> QED BY <2>1, <2>2 DEF OneActiveBond
<1>7. ExposureInv'
    <2> SUFFICES ASSUME NEW c \in BondIds, Honest(owner[c])'
                 PROVE  /\ status'[c] = "active" => exposure[c] = offline[c]
                        /\ status'[c] = "withdrawn" => offline[c] = 0
        BY <1>3, ZenonT(40) DEF ExposureInv
    <2>1. CASE c = b
        BY <1>1, <1>2, <2>1, SMTT(30) DEF BondsType, FreshInv
    <2>2. CASE c # b
        <3>1. owner'[c] = owner[c] /\ status'[c] = status[c]
            BY <1>1, <2>2 DEF BondsType
        <3>2. CASE owner[c] = None
            BY <3>1, <3>2, BondsAssumption, SMTT(30) DEF FreshInv
        <3>3. CASE owner[c] # None
            <4>1. Honest(owner[c])
                BY <1>1, <1>2, <3>1, <3>3, HonestBefore DEF BondsType, FreshInv
            <4> QED BY <3>1, <4>1 DEF ExposureInv
        <3> QED BY <3>2, <3>3
    <2> QED BY <2>1, <2>2, SMTT(30)
<1> QED BY <1>4, <1>5, <1>6, <1>7

\* register_offline_spend: exposure and what is offline grow by the same value.
LEMMA RegisterInv ==
    ASSUME BondsInv, NEW o \in Owners, NEW v \in U64, RegisterOfflineSpend(o, v)
    PROVE  BondsInv'
<1> USE DEF BondsInv
<1> DEFINE b == owner_bonds[o]
<1>1. b \in BondIds /\ status[b] = "active" /\ v \in Nat
    BY BondsAssumption, SMTT(30) DEF RegisterOfflineSpend, HasBond, BondsType, U64
<1>2. /\ exposure' = [exposure EXCEPT ![b] = exposure[b] + v]
      /\ offline' = [offline EXCEPT ![b] = offline[b] + v]
      /\ UNCHANGED <<status, owner, amount, requested, owner_bonds, now>>
    BY DEF RegisterOfflineSpend
<1> HIDE DEF b
<1>3. BondsType'
    BY <1>1, <1>2 DEF BondsType
<1>4. FreshInv'
    BY <1>1, <1>2, SMTT(30) DEF BondsType, FreshInv
<1>5. OneActiveBond'
    BY <1>2 DEF OneActiveBond, HasBond
<1>6. ExposureInv'
    BY <1>1, <1>2 DEF BondsType, ExposureInv, Honest
<1> QED BY <1>3, <1>4, <1>5, <1>6, SMTT(30)

\* settle: if the owner was never slashed, a value that is still offline was
\* registered against the bond the owner is looked up by.
LEMMA SettleInv ==
    ASSUME BondsInv, NEW o \in Owners, NEW r \in BondIds, NEW v \in U64, Settle(o, r, v)
    PROVE  BondsInv'
<1> USE DEF BondsInv
<1> DEFINE b == owner_bonds[o]
<1>1. /\ b \in BondIds /\ status[b] \in {"active", "slashed"} /\ owner[b] = o
      /\ v \in Nat /\ v <= offline[r] /\ owner[r] = o
    BY BondsAssumption, SMTT(30) DEF Settle, HasBond, BondsType, U64, OneActiveBond
<1>2. /\ exposure' = [exposure EXCEPT ![b] = IF v <= exposure[b] THEN exposure[b] - v ELSE 0]
      /\ offline' = [offline EXCEPT ![r] = offline[r] - v]
      /\ UNCHANGED <<status, owner, amount, requested, owner_bonds, now>>
    BY DEF Settle
<1>3. status[r] # "unused" /\ (status[r] = "active" => r = b)
    BY <1>1, BondsAssumption, SMTT(30) DEF FreshInv, OneActiveBond
<1> HIDE DEF b
<1>4. BondsType'
    BY <1>1, <1>2, SMTT(30) DEF BondsType
<1>5. FreshInv'
    BY <1>1, <1>2, <1>3, SMTT(30) DEF BondsType, FreshInv
<1>6. OneActiveBond'
    BY <1>2, SMTT(30) DEF OneActiveBond, HasBond
<1>7. ExposureInv'
    <2> SUFFICES ASSUME NEW c \in BondIds, Honest(owner[c])
                 PROVE  /\ status[c] = "active" => exposure'[c] = offline'[c]
                        /\ status[c] = "withdrawn" => offline'[c] = 0
        BY <1>2 DEF ExposureInv, Honest
    <2>1. CASE owner[c] # o
        BY <1>1, <1>2, <2>1, SMTT(30) DEF BondsType, ExposureInv
    <2>2. CASE owner[c] = o
        <3>1. Honest(o)
            BY <2>2, SMTT(30)
        <3>2. /\ status[b] = "active" /\ exposure[b] = offline[b]
              /\ status[r] = "withdrawn" => offline[r] = 0
            BY <1>1, <3>1 DEF ExposureInv, Honest
        <3>3. status[r] = "active" \/ status[r] = "withdrawn"
            BY <1>1, <1>3, <3>1, SMTT(30) DEF Honest, BondsType
        <3>4. CASE r = b
            BY <1>1, <1>2, <3>2, <3>4, <2>2, SMTT(30) DEF BondsType, ExposureInv
        <3>5. CASE r # b
            <4>1. offline[r] = 0 /\ v = 0
                BY <1>1, <1>3, <3>2, <3>3, <3>5 DEF BondsType
            <4>2. exposure' = exposure /\ offline' = offline
                BY <1>1, <1>2, <4>1 DEF BondsType
            <4> QED BY <4>2 DEF ExposureInv
        <3> QED BY <3>4, <3>5
    <2> QED BY <2>1, <2>2, SMTT(30)
<1> QED BY <1>4, <1>5, <1>6, <1>7, SMTT(30)

\* slash: its owner is not honest any more.
LEMMA SlashInv ==
    ASSUME BondsInv, NEW o \in Owners, Slash(o)
    PROVE  BondsInv'
<1> USE DEF BondsInv
<1> DEFINE b == owner_bonds[o]
<1>1. b \in BondIds /\ status[b] = "active" /\ owner[b] = o
    BY BondsAssumption DEF Slash, HasBond, BondsType, OneActiveBond
<1>2. /\ status' = [status EXCEPT ![b] = "slashed"]
      /\ UNCHANGED <<owner, amount, exposure, requested, owner_bonds, now, offline>>
    BY DEF Slash
<1> HIDE DEF b
<1>3. BondsType'
    BY <1>1, <1>2, SMTT(30) DEF BondsType
<1>4. FreshInv'
    BY <1>1, <1>2, SMTT(30) DEF BondsType, FreshInv
<1>5. OneActiveBond'
    BY <1>1, <1>2, SMTT(30) DEF BondsType, OneActiveBond, HasBond
<1>6. ExposureInv'
    BY <1>1, <1>2, SMTT(30) DEF BondsType, ExposureInv, Honest
<1> QED BY <1>3, <1>4, <1>5, <1>6, SMTT(30)

\* withdraw: nothing is exposed, hence nothing offline, and the owner is looked
\* up by no bond any more.
LEMMA WithdrawInv ==
    ASSUME BondsInv, NEW o \in Owners, Withdraw(o)
    PROVE  BondsInv'
<1> USE DEF BondsInv
<1> DEFINE b == owner_bonds[o]
<1>1. b \in BondIds /\ status[b] = "active" /\ owner[b] = o /\ exposure[b] = 0
    BY BondsAssumption, SMTT(30) DEF Withdraw, HasBond, BondsType, OneActiveBond
<1>2. /\ status' = [status EXCEPT ![b] = "withdrawn"]
      /\ owner_bonds' = [owner_bonds EXCEPT ![o] = None]
      /\ UNCHANGED <<owner, amount, exposure, requested, now, offline>>
    BY ZenonT(40) DEF Withdraw
<1>3. \A p \in Owners : p # o => owner_bonds[p] # b
    BY <1>1, BondsAssumption DEF OneActiveBond
<1> HIDE DEF b
<1>4. BondsType'
    BY <1>1, <1>2 DEF BondsType
<1>5. FreshInv'
    BY <1>1, <1>2, SMTT(30) DEF BondsType, FreshInv
<1>6. OneActiveBond'
    <2>1. \A c \in BondIds : status'[c] = "active" => owner_bonds'[owner[c]] = c
        BY <1>1, <1>2, BondsAssumption, SMTT(30) DEF BondsType, FreshInv, OneActiveBond
    <2>2. \A p \in Owners : owner_bonds'[p] # None =>
            HasBond(p)' /\ owner[owner_bonds'[p]] = p
        BY <1>1, <1>2, <1>3, SMTT(30) DEF BondsType, OneActiveBond, HasBond
    <2> QED BY <1>2, <2>1, <2>2, SMTT(30) DEF OneActiveBond
<1>7. ExposureInv'
    BY <1>1, <1>2 DEF BondsType, ExposureInv, Honest
<1> QED BY <1>4, <1>5, <1>6, <1>7

\* Every call, and time, keeps the invariant.
LEMMA BondsNextInv == BondsInv /\ [BondsNext]_bondsVars => BondsInv'
<1> SUFFICES ASSUME BondsInv, [BondsNext]_bondsVars PROVE BondsInv'
    OBVIOUS
<1>1. ASSUME UNCHANGED <<status, owner, amount, exposure, owner_bonds, offline>>, BondsType'
      PROVE  BondsInv'
    BY <1>1, ZenonT(40) DEF BondsInv, FreshInv, OneActiveBond, HasBond, ExposureInv, Honest
<1>2. CASE Tick
    <2>1. BondsType'
        BY <1>2, SMTT(30) DEF BondsInv, BondsType, Tick, bondVars
    <2> QED BY <1>1, <1>2, <2>1, SMTT(30) DEF Tick, bondVars
<1>3. ASSUME NEW o \in Owners, RequestWithdrawal(o) PROVE BondsInv'
    <2>1. BondsType'
        BY <1>3, Zenon DEF BondsInv, BondsType, RequestWithdrawal
    <2> QED BY <1>1, <1>3, <2>1, ZenonT(40) DEF RequestWithdrawal
<1>4. CASE UNCHANGED bondsVars
    <2>1. BondsType'
        BY <1>4 DEF BondsInv, BondsType, bondsVars, bondVars
    <2> QED BY <1>1, <1>4, <2>1 DEF bondsVars, bondVars
<1> QED BY <1>2, <1>3, <1>4, DepositInv, RegisterInv, SettleInv, SlashInv, WithdrawInv, SMTT(30)
        DEF BondsNext

-----------------------------------------------------------------------------

\* The two maps of the registry agree, for any owners and any sequence of
\* calls: an owner has at most one active bond and is looked up by it, and
\* never by one of another owner or one that was paid out.
THEOREM OneActiveBondHolds == BondsSpec => []OneActiveBond
<1>1. BondsInv => OneActiveBond
    BY SMTT(30) DEF BondsInv
<1> QED BY <1>1, BondsInitInv, BondsNextInv, PTL DEF BondsSpec

\* For an owner who was never slashed check_coverage tells the truth: the value
\* it is asked about and all that is offline already are covered by the bond.
THEOREM CoverageIsRealHolds == BondsSpec => []CoverageIsReal
<1>1. BondsInv => CoverageIsReal
    <2> SUFFICES ASSUME BondsInv, NEW o \in Owners, NEW v \in U64,
                        Honest(o), check_coverage(o, v)
                 PROVE  offline[owner_bonds[o]] + v <= amount[owner_bonds[o]]
        BY DEF CoverageIsReal
    <2>1. /\ owner_bonds[o] \in BondIds /\ owner[owner_bonds[o]] = o
          /\ status[owner_bonds[o]] = "active"
        BY DEF BondsInv, BondsType, OneActiveBond, check_coverage, HasActiveBond
    <2>2. exposure[owner_bonds[o]] = offline[owner_bonds[o]]
        BY <2>1 DEF BondsInv, ExposureInv
    <2>3. amount[owner_bonds[o]] >= exposure[owner_bonds[o]] + v
        BY DEF check_coverage
    <2>4. amount \in [BondIds -> Nat] /\ exposure \in [BondIds -> Nat]
        BY DEF BondsInv, BondsType
    <2>5. amount[owner_bonds[o]] \in Nat /\ exposure[owner_bonds[o]] \in Nat
        BY <2>1, <2>4
    <2>6. v \in Nat
        BY BondsAssumption, SMTT(30) DEF U64
    <2> QED BY <2>2, <2>3, <2>5, <2>6, SMTT(30)
<1> QED BY <1>1, BondsInitInv, BondsNextInv, PTL DEF BondsSpec

\* No bond of such an owner is paid out, by withdraw, while a value that was
\* registered against it is offline.
THEOREM WithdrawnSettledHolds == BondsSpec => []WithdrawnSettled
<1>1. BondsInv => WithdrawnSettled
    BY DEF BondsInv, ExposureInv, WithdrawnSettled
<1> QED BY <1>1, BondsInitInv, BondsNextInv, PTL DEF BondsSpec

-----------------------------------------------------------------------------
(* What was paid in *)

\* The bonds of an owner that are staked or forfeited, and the ids drawn so far.
Staked(o) == {b \in BondIds : owner[b] = o /\ status[b] \in {"active", "slashed"}}

Used == {b \in BondIds : status[b] # "unused"}

\* Only finitely many ids were ever drawn, and the sums are right.
FundsInv ==
    /\ IsFiniteSet(Used)
    /\ balance \in [Owners -> Int]
    /\ \A o \in Owners : balance[o] = SumOf(amount, Staked(o))

\* The sums are those that FundsConserved speaks about.
LEMMA FundsSum == FundsInv => FundsConserved
<1>1. \A o : MapThenSumSet(LAMBDA b : amount[b], Staked(o)) = SumOf(amount, Staked(o))
    BY SumOfFunction, ZenonT(40)
<1> QED BY <1>1, Zenon DEF FundsInv, FundsConserved, Staked

\* Every sum is one over finitely many amounts.
LEMMA StakedSummable ==
    ASSUME BondsType, IsFiniteSet(Used), NEW o
    PROVE  Summable(amount, Staked(o))
<1>1. Staked(o) \in SUBSET Used
    BY DEF Staked, Used
<1>2. IsFiniteSet(Staked(o))
    BY <1>1, FS_Subset
<1>3. \A b \in Staked(o) : amount[b] \in Int
    BY DEF Staked, BondsType
<1> QED BY <1>2, <1>3 DEF Summable

\* A step that stakes nothing and pays nothing out.
LEMMA FundsSame ==
    ASSUME FundsInv, \A o \in Owners : Staked(o)' = Staked(o), Used' = Used,
           amount' = amount, balance' = balance
    PROVE  FundsInv'
BY DEF FundsInv

\* deposit adds the bond to those of its owner.
LEMMA DepositFunds ==
    ASSUME BondsInv, FundsInv, NEW o \in Owners, NEW a \in U64, Deposit(o, a)
    PROVE  FundsInv'
<1>1. PICK b \in Drawn :
        /\ status' = [status EXCEPT ![b] = "active"]
        /\ owner' = [owner EXCEPT ![b] = o]
        /\ amount' = [amount EXCEPT ![b] = a]
    BY ZenonT(40) DEF Deposit
<1>2. b \in BondIds /\ status[b] = "unused" /\ a \in Nat
    BY BondsAssumption DEF Drawn, U64
<1>3. balance' = [balance EXCEPT ![o] = balance[o] + a]
    BY DEF Deposit
<1>4. BondsType
    BY DEF BondsInv
<1>5. IsFiniteSet(Used')
    <2>1. Used' = Used \cup {b}
        BY <1>1, <1>2, <1>4 DEF Used, BondsType
    <2> QED BY <2>1, FS_AddElement DEF FundsInv
<1>6. ASSUME NEW p \in Owners
      PROVE  /\ b \notin Staked(p) /\ Summable(amount, Staked(p))
             /\ SumOf(amount', Staked(p)) = SumOf(amount, Staked(p))
             /\ Summable(amount', Staked(p))
             /\ Staked(p)' = IF p = o THEN Staked(p) \cup {b} ELSE Staked(p)
    <2>1. b \notin Staked(p)
        BY <1>2 DEF Staked
    <2>2. Summable(amount, Staked(p))
        BY <1>4, StakedSummable DEF FundsInv
    <2>3. \A c \in Staked(p) : amount[c] = amount'[c]
        BY <1>1, <1>4, <2>1 DEF Staked, BondsType
    <2>4. SumOf(amount', Staked(p)) = SumOf(amount, Staked(p))
        BY <2>2, <2>3, SumSame
    <2>5. Summable(amount', Staked(p))
        BY <2>2, <2>3 DEF Summable
    <2>6. Staked(p)' = IF p = o THEN Staked(p) \cup {b} ELSE Staked(p)
        BY <1>1, <1>2, <1>4 DEF Staked, BondsType
    <2> QED BY <2>1, <2>2, <2>4, <2>5, <2>6, SMTT(30)
<1>7. ASSUME NEW p \in Owners PROVE balance'[p] = SumOf(amount', Staked(p)')
    <2>1. CASE p = o
        <3>1. amount'[b] = a /\ a \in Int
            BY <1>1, <1>2, <1>4, SMTT(30) DEF BondsType
        <3>2. SumOf(amount', Staked(p) \cup {b}) = amount'[b] + SumOf(amount', Staked(p))
            BY <1>6, <3>1, SumAdd, SMTT(30)
        <3>3. SumOf(amount, Staked(p)) \in Int /\ balance[p] = SumOf(amount, Staked(p))
            BY <1>6, SumIsInt DEF FundsInv
        <3>4. balance'[p] = balance[p] + a
            BY <1>3, <2>1, SMTT(30) DEF FundsInv
        <3>5. SumOf(amount', Staked(p)') = a + SumOf(amount, Staked(p))
            BY <1>6, <2>1, <3>1, <3>2, SMTT(30)
        <3>6. a + SumOf(amount, Staked(p)) = SumOf(amount, Staked(p)) + a
            BY <3>1, <3>3, SMTT(30)
        <3> QED BY <3>3, <3>4, <3>5, <3>6
    <2>2. CASE p # o
        BY <1>3, <1>6, <2>2 DEF FundsInv
    <2> QED BY <2>1, <2>2, SMTT(30)
<1>8. balance' \in [Owners -> Int]
    BY <1>2, <1>3, SMTT(30) DEF FundsInv
<1> QED BY <1>5, <1>7, <1>8 DEF FundsInv

\* withdraw pays the amount of the bond out and takes it off the owner's.
LEMMA WithdrawFunds ==
    ASSUME BondsInv, FundsInv, NEW o \in Owners, Withdraw(o)
    PROVE  FundsInv'
<1> DEFINE b == owner_bonds[o]
<1>1. b \in BondIds /\ status[b] = "active" /\ owner[b] = o
    BY BondsAssumption, SMTT(30) DEF BondsInv, Withdraw, HasBond, BondsType, OneActiveBond
<1>2. /\ status' = [status EXCEPT ![b] = "withdrawn"]
      /\ balance' = [balance EXCEPT ![o] = balance[o] - amount[b]]
      /\ UNCHANGED <<owner, amount>>
    BY DEF Withdraw
<1> HIDE DEF b
<1>3. BondsType /\ amount[b] \in Int
    BY <1>1 DEF BondsInv, BondsType
<1>4. Used' = Used
    BY <1>1, <1>2, <1>3 DEF Used, BondsType
<1>5. balance' \in [Owners -> Int]
    BY <1>2, <1>3 DEF FundsInv
<1>6. ASSUME NEW p \in Owners PROVE balance'[p] = SumOf(amount, Staked(p)')
    <2>1. CASE p = o
        <3>1. b \in Staked(p) /\ Staked(p)' = Staked(p) \ {b}
            BY <1>1, <1>2, <1>3, <2>1 DEF Staked, BondsType
        <3>2. Summable(amount, Staked(p))
            BY <1>3, StakedSummable DEF FundsInv
        <3>3. SumOf(amount, Staked(p)) = amount[b] + SumOf(amount, Staked(p) \ {b})
            BY <3>1, <3>2, SumRemove
        <3>4. SumOf(amount, Staked(p) \ {b}) \in Int
            <4>1. Summable(amount, Staked(p) \ {b})
                BY <3>2, FS_RemoveElement DEF Summable
            <4> QED BY <4>1, SumIsInt, SMTT(30)
        <3>5. balance'[p] = SumOf(amount, Staked(p)) - amount[b]
            BY <1>2, <2>1 DEF FundsInv
        <3>6. balance'[p] = SumOf(amount, Staked(p) \ {b})
            BY <1>3, <3>3, <3>4, <3>5, SMTT(30)
        <3> QED BY <3>1, <3>6
    <2>2. CASE p # o
        <3>1. Staked(p)' = Staked(p)
            BY <1>1, <1>2, <1>3, <2>2, SMTT(30) DEF Staked, BondsType
        <3> QED BY <1>2, <2>2, <3>1, SMTT(30) DEF FundsInv
    <2> QED BY <2>1, <2>2
<1> QED BY <1>2, <1>4, <1>5, <1>6, SMTT(30) DEF FundsInv

\* slash keeps the amount of the bond with the registry.
LEMMA SlashFunds ==
    ASSUME BondsInv, FundsInv, NEW o \in Owners, Slash(o)
    PROVE  FundsInv'
<1> DEFINE b == owner_bonds[o]
<1>1. b \in BondIds /\ status[b] = "active"
    BY BondsAssumption DEF BondsInv, Slash, HasBond, BondsType, OneActiveBond
<1>2. /\ status' = [status EXCEPT ![b] = "slashed"]
      /\ UNCHANGED <<owner, amount, balance>>
    BY DEF Slash
<1> HIDE DEF b
<1>3. Used' = Used
    BY <1>1, <1>2 DEF BondsInv, Used, BondsType
<1>4. \A p \in Owners : Staked(p)' = Staked(p)
    BY <1>1, <1>2, SMTT(30) DEF BondsInv, Staked, BondsType
<1> QED BY <1>2, <1>3, <1>4, FundsSame, SMTT(30)

\* Every call, and time, keeps the sums.
LEMMA NextFunds == BondsInv /\ FundsInv /\ [BondsNext]_bondsVars => FundsInv'
<1> SUFFICES ASSUME BondsInv, FundsInv, [BondsNext]_bondsVars PROVE FundsInv'
    OBVIOUS
<1>1. ASSUME UNCHANGED <<status, owner, amount, balance>> PROVE FundsInv'
    <2>1. Used' = Used /\ \A p \in Owners : Staked(p)' = Staked(p)
        BY <1>1 DEF Used, Staked
    <2> QED BY <1>1, <2>1, FundsSame, SMTT(30)
<1>2. CASE Tick
    BY <1>1, <1>2 DEF Tick, bondVars
<1>3. ASSUME NEW o \in Owners, RequestWithdrawal(o) PROVE FundsInv'
    BY <1>1, <1>3, SMTT(30) DEF RequestWithdrawal
<1>4. ASSUME NEW o \in Owners, NEW v \in U64, RegisterOfflineSpend(o, v) PROVE FundsInv'
    BY <1>1, <1>4, SMTT(30) DEF RegisterOfflineSpend
<1>5. ASSUME NEW o \in Owners, NEW r \in BondIds, NEW v \in U64, Settle(o, r, v)
      PROVE  FundsInv'
    BY <1>1, <1>5 DEF Settle
<1>6. CASE UNCHANGED bondsVars
    BY <1>1, <1>6 DEF bondsVars, bondVars
<1> QED BY <1>2, <1>3, <1>4, <1>5, <1>6, DepositFunds, WithdrawFunds, SlashFunds, SMTT(30)
        DEF BondsNext

\* The registry starts empty.
LEMMA InitFunds == BondsInit => FundsInv
<1> SUFFICES ASSUME BondsInit PROVE FundsInv
    OBVIOUS
<1>1. Used = {} /\ \A o \in Owners : Staked(o) = {}
    BY DEF BondsInit, Used, Staked
<1>2. balance \in [Owners -> Int] /\ \A o \in Owners : balance[o] = 0
    BY DEF BondsInit
<1> QED BY <1>1, <1>2, SumOfNone, FS_EmptySet, SMTT(30) DEF FundsInv

\* What an owner has paid in by deposit and not got back by withdraw is the sum
\* of the owner's bonds that are staked or forfeited: for any number of owners
\* and deposits, and whatever is registered, settled and slashed in between.
THEOREM FundsConservedHolds == BondsSpec => []FundsConserved
<1>1. BondsInit => BondsInv /\ FundsInv
    BY BondsInitInv, InitFunds
<1>2. BondsInv /\ FundsInv /\ [BondsNext]_bondsVars => (BondsInv /\ FundsInv)'
    BY BondsNextInv, NextFunds
<1> QED BY <1>1, <1>2, FundsSum, PTL DEF BondsSpec

-----------------------------------------------------------------------------
(* Validators *)

\* The quorums that intersect in a correct validator: max_faults of n = 3f + 1,
\* or all of fewer than four.
Sized == (N < 4 \/ N % 3 = 1) /\ Cardinality(Faulty) <= max_faults

\* The correct validators that have voted for b.
Voters(b) == {w \in Correct : \E c \in cast : c.voter = w /\ c.block = b}

\* With the faulty validators, enough for a quorum.
Certified(b) == Cardinality(Voters(b) \cup Faulty) >= quorum_size

\* A correct validator votes for blocks of its height, once at a height.
CastInv ==
    /\ \A p \in proposals : p.block.height \in Nat
    /\ \A c \in cast : /\ c.voter \in Correct
                       /\ c.height \in Nat
                       /\ c.view = 0
                       /\ c.block.height = c.height
    /\ \A c, d \in cast : c.voter = d.voter /\ c.height = d.height => c = d

\* A stored vote of a correct validator was cast by it, at a height that the
\* validator that stores it has reached.
VotesInv ==
    \A v \in Correct : \A t \in votes[v] : t[2] \in Correct =>
        t[2] \in Voters(t[1]) /\ t[1].height <= Len(chain[v])

\* What is committed is at its height, had a quorum, and has no votes of correct
\* validators left, so that it is not committed again.
ChainInv ==
    \A v \in Correct : \A i \in DOMAIN chain[v] :
        /\ chain[v][i].height = i - 1
        /\ Certified(chain[v][i])
        /\ \A w \in Correct : <<chain[v][i], w>> \notin votes[v]

ShapeInv ==
    /\ view = [v \in Correct |-> 0]
    /\ DOMAIN chain = Correct
    /\ \A v \in Correct : chain[v] \in Seq(Sent)
    /\ DOMAIN votes = Correct

IInv == ShapeInv /\ CastInv /\ VotesInv /\ ChainInv

-----------------------------------------------------------------------------
(* Quorums *)

\* Two sets of quorum_size validators have a correct one in common.
LEMMA QuorumsMeet ==
    ASSUME Sized,
           NEW P \in SUBSET Validators, Cardinality(P) >= quorum_size,
           NEW Q \in SUBSET Validators, Cardinality(Q) >= quorum_size
    PROVE  \E w \in P \cap Q : w \notin Faulty
<1>1. IsFiniteSet(Validators) /\ Cardinality(Validators) = N
    BY FS_Interval, ConsensusAssumption DEF Validators
<1>2. /\ IsFiniteSet(P) /\ IsFiniteSet(Q) /\ IsFiniteSet(Faulty)
      /\ IsFiniteSet(P \cup Q) /\ IsFiniteSet(P \cap Q)
    BY <1>1, FS_Subset, ConsensusAssumption
<1>3. Cardinality(P \cup Q) <= N
    BY <1>1, FS_Subset, P \cup Q \in SUBSET Validators
<1>4. Cardinality(P \cup Q) =
        Cardinality(P) + Cardinality(Q) - Cardinality(P \cap Q)
    BY <1>2, FS_Union
<1>5. /\ Cardinality(P) \in Nat /\ Cardinality(Q) \in Nat
      /\ Cardinality(P \cap Q) \in Nat /\ Cardinality(Faulty) \in Nat
    BY <1>2, FS_CardinalityType
<1>6. 2 * quorum_size - N > max_faults /\ quorum_size \in Int /\ max_faults \in Int
    BY ConsensusAssumption DEF Sized, quorum_size, max_faults
<1>7. Cardinality(P \cap Q) > Cardinality(Faulty)
    BY <1>3, <1>4, <1>5, <1>6, ConsensusAssumption DEF Sized
<1>8. CASE P \cap Q \subseteq Faulty
    <2>1. Cardinality(P \cap Q) <= Cardinality(Faulty)
        BY <1>2, <1>8, FS_Subset
    <2> QED BY <2>1, <1>5, <1>7
<1> QED BY <1>8

\* At a height only one block is ever certified: the common voter of two would
\* have voted twice.
LEMMA OneCertified ==
    ASSUME Sized, CastInv, NEW b, NEW d, Certified(b), Certified(d),
           b.height = d.height
    PROVE  b = d
<1>1. PICK w \in (Voters(b) \cup Faulty) \cap (Voters(d) \cup Faulty) : w \notin Faulty
    <2>1. /\ Voters(b) \cup Faulty \in SUBSET Validators
          /\ Voters(d) \cup Faulty \in SUBSET Validators
        BY ConsensusAssumption DEF Voters, Correct
    <2> QED BY <2>1, QuorumsMeet DEF Certified
<1>2. PICK c \in cast : c.voter = w /\ c.block = b
    BY <1>1 DEF Voters
<1>3. PICK e \in cast : e.voter = w /\ e.block = d
    BY <1>1 DEF Voters
<1> QED BY <1>2, <1>3 DEF CastInv

\* A quorum in votes[v] makes a block certified, has a correct voter, and is for
\* a block of the current height of v.
LEMMA QuorumIsCertified ==
    ASSUME Sized, IInv, NEW v \in Correct, NEW b,
           Cardinality(Approvals(v, b)) >= quorum_size
    PROVE  Certified(b) /\ b.height = Len(chain[v])
<1>1. Approvals(v, b) \in SUBSET Validators
    BY DEF Approvals
<1>2. PICK w \in Approvals(v, b) : w \in Correct
    BY <1>1, QuorumsMeet DEF Correct
<1>3. <<b, w>> \in votes[v]
    BY <1>2 DEF Approvals
<1>4. \A u \in Correct : <<b, u>> \in votes[v] =>
        u \in Voters(b) /\ b.height <= Len(chain[v])
    BY DEF IInv, VotesInv
<1>5. Certified(b)
    <2>1. Approvals(v, b) \subseteq Voters(b) \cup Faulty
        BY <1>4 DEF Approvals, Correct
    <2>2. Voters(b) \cup Faulty \in SUBSET Validators
        BY ConsensusAssumption DEF Voters, Correct
    <2>3. IsFiniteSet(Validators)
        BY FS_Interval, ConsensusAssumption DEF Validators
    <2>4. IsFiniteSet(Voters(b) \cup Faulty)
        BY <2>2, <2>3, FS_Subset
    <2>5. /\ Cardinality(Approvals(v, b)) <= Cardinality(Voters(b) \cup Faulty)
          /\ IsFiniteSet(Approvals(v, b))
        BY <2>1, <2>4, FS_Subset
    <2>6. Cardinality(Approvals(v, b)) \in Nat /\ Cardinality(Voters(b) \cup Faulty) \in Nat
        BY <2>4, <2>5, FS_CardinalityType
    <2>7. quorum_size \in Int
        BY ConsensusAssumption DEF quorum_size, max_faults
    <2> QED BY <2>5, <2>6, <2>7 DEF Certified
<1>6. b.height \in Nat /\ b.height <= Len(chain[v])
    <2>1. PICK c \in cast : c.voter = w /\ c.block = b
        BY <1>2, <1>3, <1>4 DEF Voters
    <2> QED BY <1>2, <1>3, <1>4, <2>1 DEF IInv, CastInv
<1>7. ASSUME b.height < Len(chain[v]) PROVE FALSE
    <2> DEFINE i == b.height + 1
    <2>1. chain[v] \in Seq(Sent)
        BY DEF IInv, ShapeInv
    <2>2. i \in DOMAIN chain[v] /\ i - 1 = b.height
        BY <1>6, <1>7, <2>1
    <2>3. /\ chain[v][i].height = b.height
          /\ Certified(chain[v][i])
          /\ <<chain[v][i], w>> \notin votes[v]
        BY <1>2, <2>2 DEF IInv, ChainInv
    <2>4. chain[v][i] = b
        BY <1>5, <2>3, OneCertified DEF IInv
    <2> QED BY <1>3, <2>3, <2>4, Zenon
<1>8. Len(chain[v]) \in Nat
    BY DEF IInv, ShapeInv
<1> QED BY <1>5, <1>6, <1>7, <1>8

-----------------------------------------------------------------------------
(* The inductive invariant *)

\* More votes cast leave a certified block certified.
LEMMA CertifiedStays ==
    ASSUME cast \subseteq cast', NEW b
    PROVE  /\ Voters(b) \subseteq Voters(b)'
           /\ Certified(b) => Certified(b)'
<1>1. Voters(b) \subseteq Voters(b)'
    BY DEF Voters
<1>2. IsFiniteSet(Validators)
    BY FS_Interval, ConsensusAssumption DEF Validators
<1>3. Voters(b)' \cup Faulty \in SUBSET Validators
    BY ConsensusAssumption DEF Voters, Correct
<1>4. IsFiniteSet(Voters(b)' \cup Faulty)
    BY <1>2, <1>3, FS_Subset
<1>5. Voters(b) \cup Faulty \in SUBSET (Voters(b)' \cup Faulty)
    BY <1>1
<1>6. /\ IsFiniteSet(Voters(b) \cup Faulty)
      /\ Cardinality(Voters(b) \cup Faulty) <= Cardinality(Voters(b)' \cup Faulty)
    BY <1>4, <1>5, FS_Subset
<1>7. /\ Cardinality(Voters(b) \cup Faulty) \in Nat
      /\ Cardinality(Voters(b)' \cup Faulty) \in Nat
    BY <1>4, <1>6, FS_CardinalityType
<1>8. quorum_size \in Int
    BY ConsensusAssumption DEF quorum_size, max_faults
<1> QED BY <1>1, <1>6, <1>7, <1>8 DEF Certified

\* It holds before anything is sent.
LEMMA InitInv == Init => IInv
<1> SUFFICES ASSUME Init PROVE IInv
    OBVIOUS
<1>1. \A v \in Correct : chain[v] = <<>> /\ votes[v] = {}
    BY DEF Init
<1>2. ShapeInv
    BY <1>1 DEF Init, ShapeInv
<1>3. CastInv /\ VotesInv /\ ChainInv
    BY <1>1 DEF Init, CastInv, VotesInv, ChainInv
<1> QED BY <1>2, <1>3 DEF IInv

\* What a validator has pending or seen is no part of it.
LEMMA StutterInv ==
    ASSUME IInv, UNCHANGED <<chain, votes, view, proposals, cast>>
    PROVE  IInv'
<1>1. ShapeInv'
    BY Zenon DEF IInv, ShapeInv, Sent
<1>2. CastInv'
    BY DEF IInv, CastInv
<1>3. VotesInv'
    BY CertifiedStays DEF IInv, VotesInv
<1>4. ChainInv'
    BY CertifiedStays DEF IInv, ChainInv
<1> QED BY <1>1, <1>2, <1>3, <1>4 DEF IInv

\* A block that is proposed, by whomever, has a height.
LEMMA ProposalInv ==
    ASSUME IInv, UNCHANGED <<chain, votes, view, cast>>, NEW p,
           p.block.height \in Nat, proposals' = proposals \cup {p}
    PROVE  IInv'
<1>1. ShapeInv'
    <2>1. Sent \subseteq Sent'
        BY DEF Sent
    <2>2. \A v \in Correct : chain[v] \in Seq(Sent')
        BY <2>1 DEF IInv, ShapeInv
    <2> QED BY <2>2 DEF IInv, ShapeInv
<1>2. CastInv'
    BY DEF IInv, CastInv
<1>3. VotesInv'
    BY CertifiedStays DEF IInv, VotesInv
<1>4. ChainInv'
    BY CertifiedStays DEF IInv, ChainInv
<1> QED BY <1>1, <1>2, <1>3, <1>4, Zenon DEF IInv

\* receive_proposal and the vote that follows it.
LEMMA HandleProposalInv ==
    ASSUME IInv, NEW v \in Correct, NEW b \in Sent, HandleProposal(v, b)
    PROVE  IInv'
<1>1. ShapeInv'
    BY Zenon DEF IInv, ShapeInv, HandleProposal, Sent
<1>2. cast \subseteq cast'
    BY Zenon DEF HandleProposal
<1>3. CastInv'
    <2>1. b.height \in Nat
        BY DEF IInv, CastInv, Sent
    <2>2. view[v] = 0
        BY DEF IInv, ShapeInv
    <2>3. CASE cast' = cast
        BY <2>3, Zenon DEF IInv, CastInv, HandleProposal
    <2>4. CASE /\ \A c \in cast :
                    ~(c.voter = v /\ c.height = b.height /\ c.view = view[v])
               /\ cast' = cast \cup {[voter |-> v, height |-> b.height,
                                      view |-> view[v], block |-> b]}
        <3>1. \A c \in cast : ~(c.voter = v /\ c.height = b.height)
            BY <2>2, <2>4, Zenon DEF IInv, CastInv
        <3>2. PICK n : n = [voter |-> v, height |-> b.height, view |-> view[v], block |-> b]
            BY Zenon
        <3>3. n.voter = v /\ n.height = b.height /\ n.view = 0 /\ n.block = b
            BY <2>2, <3>2
        <3>4. cast' = cast \cup {n} /\ proposals' = proposals
            BY <2>4, <3>2, Zenon DEF HandleProposal
        <3>5. \A p \in proposals' : p.block.height \in Nat
            BY <3>4, Zenon DEF IInv, CastInv
        <3>6. \A c \in cast' : /\ c.voter \in Correct /\ c.height \in Nat
                               /\ c.view = 0 /\ c.block.height = c.height
            BY <2>1, <3>3, <3>4, Zenon DEF IInv, CastInv
        <3>7. \A c, d \in cast' : c.voter = d.voter /\ c.height = d.height => c = d
            <4>1. \A c, d \in cast : c.voter = d.voter /\ c.height = d.height => c = d
                BY Zenon DEF IInv, CastInv
            <4>2. SUFFICES ASSUME NEW c \in cast', NEW d \in cast',
                                  c.voter = d.voter, c.height = d.height
                           PROVE  c = d
                BY Zenon
            <4>3. CASE c \in cast /\ d \in cast
                BY <4>1, <4>2, <4>3, Zenon
            <4>4. CASE c = n \/ d = n
                BY <3>1, <3>3, <3>4, <4>2, <4>4, Zenon
            <4> QED BY <3>4, <4>3, <4>4, Zenon
        <3> QED BY <3>5, <3>6, <3>7, Zenon DEF CastInv
    <2> QED BY <2>3, <2>4, Zenon DEF HandleProposal
<1>4. VotesInv'
    BY <1>2, CertifiedStays, Zenon DEF IInv, VotesInv, HandleProposal
<1>5. ChainInv'
    BY <1>2, CertifiedStays, Zenon DEF IInv, ChainInv, HandleProposal
<1> QED BY <1>1, <1>3, <1>4, <1>5 DEF IInv

\* What arrives as the vote of a correct validator was cast.
LEMMA VoteOfCorrect == ASSUME NEW v, NEW c \in Votes(v), c.voter \in Correct PROVE c \in cast
BY DEF Votes, Correct

\* receive_vote: a correct validator's vote is for a block of the current height,
\* hence for none that is committed.
LEMMA ReceiveVoteInv ==
    ASSUME IInv, NEW v \in Correct, NEW c \in Votes(v), ReceiveVote(v, c)
    PROVE  IInv'
<1>1. ShapeInv'
    BY DEF IInv, ShapeInv, ReceiveVote, Sent
<1>2. CastInv'
    BY Zenon DEF IInv, CastInv, ReceiveVote
<1>3. votes' = [votes EXCEPT ![v] = @ \cup {<<c.block, c.voter>>}]
    BY Zenon DEF ReceiveVote
<1>4. \A u \in Correct : votes'[u] =
        IF u = v THEN votes[u] \cup {<<c.block, c.voter>>} ELSE votes[u]
    BY <1>3, Zenon DEF IInv, ShapeInv
<1>5. ASSUME c.voter \in Correct
      PROVE  c.voter \in Voters(c.block) /\ c.block.height = Len(chain[v])
    <2>1. c \in cast
        BY <1>5, VoteOfCorrect, Zenon
    <2> QED BY <1>5, <2>1, Zenon DEF Voters, IInv, CastInv, ReceiveVote, current_height
<1>6. \A u \in Correct : chain[u] \in Seq(Sent) /\ chain'[u] = chain[u]
    BY DEF IInv, ShapeInv, ReceiveVote
<1>7. \A b : Voters(b)' = Voters(b) /\ Certified(b)' = Certified(b)
    BY Zenon DEF Voters, Certified, ReceiveVote
<1>8. VotesInv'
    <2> SUFFICES ASSUME NEW u \in Correct, NEW t \in votes'[u], t[2] \in Correct
                 PROVE  t[2] \in Voters(t[1]) /\ t[1].height <= Len(chain[u])
        BY <1>6, <1>7, Zenon DEF VotesInv
    <2>1. CASE t \in votes[u]
        BY <2>1 DEF IInv, VotesInv
    <2>2. CASE u = v /\ t = <<c.block, c.voter>>
        BY <2>2, <1>5, <1>6
    <2> QED BY <1>4, <2>1, <2>2, Zenon
<1>9. ChainInv'
    <2> SUFFICES ASSUME NEW u \in Correct, NEW i \in DOMAIN chain[u]
                 PROVE  /\ chain[u][i].height = i - 1
                        /\ Certified(chain[u][i])
                        /\ \A w \in Correct : <<chain[u][i], w>> \notin votes'[u]
        BY <1>6, <1>7, Zenon DEF ChainInv
    <2>1. /\ chain[u][i].height = i - 1
          /\ Certified(chain[u][i])
          /\ \A w \in Correct : <<chain[u][i], w>> \notin votes[u]
        BY Zenon DEF IInv, ChainInv
    <2>2. i \in 1..Len(chain[u]) /\ Len(chain[u]) \in Nat
        BY <1>6
    <2>3. ASSUME NEW w \in Correct, u = v, <<chain[u][i], w>> = <<c.block, c.voter>>
          PROVE  FALSE
        BY <2>1, <2>2, <2>3, <1>5
    <2> QED BY <2>1, <2>3, <1>4, Zenon
<1> QED BY <1>1, <1>2, <1>8, <1>9 DEF IInv

\* try_commit: the block is of the height it is committed at.
LEMMA TryCommitInv ==
    ASSUME Sized, IInv, NEW v \in Correct, NEW b \in Sent, TryCommit(v, b)
    PROVE  IInv'
<1>1. Certified(b) /\ b.height = Len(chain[v])
    BY QuorumIsCertified DEF TryCommit
<1>2. \A u \in Correct : chain[u] \in Seq(Sent) /\ Len(chain[u]) \in Nat
    BY DEF IInv, ShapeInv
<1>3. \A u \in Correct :
        /\ chain'[u] = IF u = v THEN Append(chain[u], b) ELSE chain[u]
        /\ votes'[u] = IF u = v THEN {w \in votes[u] : w[1] # b} ELSE votes[u]
    BY Zenon DEF IInv, ShapeInv, TryCommit
<1>4. \A u \in Correct : chain'[u] \in Seq(Sent) /\ Len(chain'[u]) >= Len(chain[u])
    <2> SUFFICES ASSUME NEW u \in Correct
                 PROVE  chain'[u] \in Seq(Sent) /\ Len(chain'[u]) >= Len(chain[u])
        OBVIOUS
    <2>0. chain'[u] = IF u = v THEN Append(chain[u], b) ELSE chain[u]
        BY <1>3, Zenon
    <2>1. CASE u = v
        <3>1. Append(chain[v], b) \in Seq(Sent) /\ Len(Append(chain[v], b)) = Len(chain[v]) + 1
            BY <1>2, AppendProperties
        <3> QED BY <1>2, <2>0, <2>1, <3>1
    <2>2. CASE u # v
        BY <1>2, <2>0, <2>2
    <2> QED BY <2>1, <2>2
<1>5. ShapeInv'
    BY <1>4 DEF IInv, ShapeInv, TryCommit, Sent
<1>6. CastInv'
    BY Zenon DEF IInv, CastInv, TryCommit
<1>7. \A d : Voters(d)' = Voters(d) /\ Certified(d)' = Certified(d)
    BY DEF Voters, Certified, TryCommit
<1>8. VotesInv'
    <2> SUFFICES ASSUME NEW u \in Correct, NEW t \in votes'[u], t[2] \in Correct
                 PROVE  t[2] \in Voters(t[1]) /\ t[1].height <= Len(chain'[u])
        BY <1>7, Zenon DEF VotesInv
    <2>1. t \in votes[u]
        BY <1>3, Zenon
    <2>2. t[2] \in Voters(t[1]) /\ t[1].height <= Len(chain[u])
        BY <2>1 DEF IInv, VotesInv
    <2>3. t[1].height \in Nat
        BY <2>2 DEF Voters, IInv, CastInv
    <2> QED BY <2>2, <2>3, <1>2, <1>4
<1>9. ChainInv'
    <2> SUFFICES ASSUME NEW u \in Correct, NEW i \in DOMAIN chain'[u]
                 PROVE  /\ chain'[u][i].height = i - 1
                        /\ Certified(chain'[u][i])
                        /\ \A w \in Correct : <<chain'[u][i], w>> \notin votes'[u]
        BY <1>7, Zenon DEF ChainInv
    <2>1. CASE i \in DOMAIN chain[u]
        <3>1. chain'[u][i] = chain[u][i]
            <4>1. chain[u] \in Seq(Sent) /\ i \in 1..Len(chain[u])
                BY <1>2, <2>1
            <4>2. Append(chain[u], b)[i] = chain[u][i]
                BY <4>1, AppendProperties
            <4> QED BY <1>3, <4>2, Zenon
        <3>2. votes'[u] \subseteq votes[u]
            BY <1>3, Zenon
        <3> QED BY <2>1, <3>1, <3>2, Zenon DEF IInv, ChainInv
    <2>2. CASE i \notin DOMAIN chain[u]
        <3>1. u = v
            BY <1>3, <2>2, Zenon
        <3>2. chain'[u] = Append(chain[u], b)
            BY <1>3, <3>1, Zenon
        <3>3. i = Len(chain[u]) + 1 /\ chain'[u][i] = b
            BY <1>2, <2>2, <3>2
        <3>4. \A w \in Correct : <<b, w>> \notin votes'[u]
            <4>1. votes'[u] = {t \in votes[u] : t[1] # b}
                BY <1>3, <3>1, Zenon
            <4> QED BY <4>1
        <3> QED BY <1>1, <1>2, <3>1, <3>3, <3>4
    <2> QED BY <2>1, <2>2, Zenon
<1> QED BY <1>5, <1>6, <1>8, <1>9 DEF IInv

\* Every step of Next keeps the invariant, if there is one view only.
LEMMA NextInv == ASSUME Sized, MaxView = 0, IInv, [Next]_vars PROVE IInv'
<1>1. ASSUME NEW v \in Correct, NEW n \in Nullifiers, Submit(v, n) PROVE IInv'
    BY <1>1, StutterInv DEF Submit
<1>2. ASSUME NEW v \in Correct, Propose(v) PROVE IInv'
    <2>1. current_height(v) \in Nat
        BY DEF IInv, ShapeInv, current_height
    <2> QED BY <1>2, <2>1, ProposalInv, Zenon DEF Propose, Block
<1>3. ASSUME NEW v \in Correct, NEW b \in Sent, HandleProposal(v, b) PROVE IInv'
    BY <1>3, HandleProposalInv
<1>4. ASSUME NEW v \in Correct, NEW b \in Sent, TryCommit(v, b) PROVE IInv'
    BY <1>4, TryCommitInv
<1>5. ASSUME NEW v \in Correct, NEW c \in Votes(v), ReceiveVote(v, c) PROVE IInv'
    BY <1>5, ReceiveVoteInv
<1>6. ASSUME NEW v \in Correct, TriggerViewChange(v) PROVE IInv'
    BY <1>6 DEF TriggerViewChange, IInv, ShapeInv
<1>7. ASSUME NEW f \in Faulty, NEW h \in 0..(MaxHeight - 1),
             NEW ns \in SUBSET Nullifiers, FaultyPropose(f, h, ns)
      PROVE  IInv'
    <2>1. h \in Nat
        BY ConsensusAssumption
    <2> QED BY <1>7, <2>1, ProposalInv, Zenon DEF FaultyPropose, Block
<1>8. CASE UNCHANGED vars
    BY <1>8, StutterInv DEF vars
<1> QED BY <1>1, <1>2, <1>3, <1>4, <1>5, <1>6, <1>7, <1>8 DEF Next

\* What is committed at a height is certified there, and only one block is.
LEMMA InvAgrees == ASSUME Sized, IInv PROVE Agreement
<1> SUFFICES ASSUME NEW v \in Correct, NEW w \in Correct,
                    NEW i \in DOMAIN chain[v] \cap DOMAIN chain[w]
             PROVE  chain[v][i] = chain[w][i]
    BY DEF Agreement
<1>1. /\ chain[v][i].height = chain[w][i].height
      /\ Certified(chain[v][i]) /\ Certified(chain[w][i])
    BY DEF IInv, ChainInv
<1> QED BY <1>1, OneCertified DEF IInv

\* Within one view, with n = 3f + 1 validators (or fewer than four) of which at
\* most max_faults are faulty, no two correct validators commit different
\* blocks at a height: whatever the faulty ones propose and vote for, in
\* whatever order messages come, for any number of heights, and although
\* try_commit does not look at the height and leaves other votes stored.
THEOREM AgreementInOneView ==
    ASSUME Sized, MaxView = 0
    PROVE  Spec => []Agreement
<1>1. Init => IInv
    BY InitInv
<1>2. IInv /\ [Next]_vars => IInv'
    BY NextInv
<1>3. IInv => Agreement
    BY InvAgrees
<1> QED BY <1>1, <1>2, <1>3, PTL DEF Spec

-----------------------------------------------------------------------------
(* A quorum of everyone *)

\* With fewer than four validators the quorum is all of them.  Then view changes
\* do no harm: whoever commits a block has voted for it, in the view in which
\* the votes were counted, and votes no more at that height.

\* A correct validator's votes: once in a view of a height, and not ahead of its
\* own view and height.
CastOnce ==
    /\ \A c \in cast : /\ c.voter \in Correct
                       /\ c.height \in Nat /\ c.height <= Len(chain[c.voter])
                       /\ c.view \in Nat /\ c.view <= view[c.voter]
                       /\ c.block.height = c.height
    /\ \A c, d \in cast :
        c.voter = d.voter /\ c.height = d.height /\ c.view = d.view => c = d

\* The correct validator w has voted for b in view x.
VotedIn(w, b, x) == \E c \in cast : c.voter = w /\ c.block = b /\ c.view = x

\* Stored votes are of the current view, since a view change drops the others.
StoredInView ==
    \A v \in Correct : \A t \in votes[v] : t[2] \in Correct =>
        VotedIn(t[2], t[1], view[v]) /\ t[1].height <= Len(chain[v])

\* v has committed b with everyone's votes of view x, and has not voted at that
\* height in a later view.
CommittedIn(v, b, x) ==
    /\ x <= view[v]
    /\ \A w \in Correct : VotedIn(w, b, x)
    /\ \A c \in cast : c.voter = v /\ c.height = b.height => c.view <= x

CommittedByAll ==
    \A v \in Correct : \A i \in DOMAIN chain[v] :
        /\ chain[v][i].height = i - 1
        /\ \E x \in Nat : CommittedIn(v, chain[v][i], x)
        /\ \A w \in Correct : <<chain[v][i], w>> \notin votes[v]

ChainShape ==
    /\ DOMAIN chain = Correct /\ DOMAIN votes = Correct
    /\ view \in [Correct -> Nat]
    /\ \A v \in Correct : chain[v] \in Seq(Sent)

HeightInv == \A p \in proposals : p.block.height \in Nat

AllInv == ChainShape /\ HeightInv /\ CastOnce /\ StoredInView /\ CommittedByAll

\* Everyone is in a quorum.
LEMMA QuorumIsEveryone ==
    ASSUME N < 4, NEW v, NEW b, Cardinality(Approvals(v, b)) >= quorum_size
    PROVE  \A w \in Correct : <<b, w>> \in votes[v]
<1>1. IsFiniteSet(Validators) /\ Cardinality(Validators) = N
    BY FS_Interval, ConsensusAssumption DEF Validators
<1>2. Approvals(v, b) \in SUBSET Validators
    BY DEF Approvals
<1>3. /\ IsFiniteSet(Approvals(v, b))
      /\ Cardinality(Approvals(v, b)) <= N
      /\ Cardinality(Approvals(v, b)) = N => Approvals(v, b) = Validators
    BY <1>1, <1>2, FS_Subset
<1>4. Cardinality(Approvals(v, b)) \in Nat
    BY <1>3, FS_CardinalityType
<1>5. Cardinality(Approvals(v, b)) = N
    BY <1>3, <1>4, ConsensusAssumption DEF quorum_size
<1> QED BY <1>3, <1>5 DEF Approvals, Correct

\* A block with everyone's votes is of the current height: v itself has voted for
\* the block it has committed below, and for no other one later on.
LEMMA EveryoneIsAtHeight ==
    ASSUME AllInv, NEW v \in Correct, NEW b, \A w \in Correct : <<b, w>> \in votes[v]
    PROVE  /\ b.height = Len(chain[v])
           /\ \A w \in Correct : VotedIn(w, b, view[v])
<1>1. \A w \in Correct : VotedIn(w, b, view[v]) /\ b.height <= Len(chain[v])
    BY Zenon DEF AllInv, StoredInView
<1>2. PICK c \in cast : c.voter = v /\ c.block = b /\ c.view = view[v]
    BY <1>1 DEF VotedIn
<1>3. b.height \in Nat /\ c.height = b.height
    BY <1>2 DEF AllInv, CastOnce
<1>4. chain[v] \in Seq(Sent) /\ Len(chain[v]) \in Nat /\ view[v] \in Nat
    BY DEF AllInv, ChainShape
<1>5. ASSUME b.height < Len(chain[v]) PROVE FALSE
    <2> DEFINE i == b.height + 1
    <2>1. i \in DOMAIN chain[v] /\ i - 1 = b.height
        BY <1>3, <1>4, <1>5
    <2>2. /\ chain[v][i].height = b.height
          /\ <<chain[v][i], v>> \notin votes[v]
        BY <2>1, Zenon DEF AllInv, CommittedByAll
    <2>3. PICK x \in Nat : CommittedIn(v, chain[v][i], x)
        BY <2>1 DEF AllInv, CommittedByAll
    <2>4. c.view = x
        BY <1>2, <1>3, <1>4, <2>2, <2>3 DEF CommittedIn
    <2>5. PICK d \in cast : d.voter = v /\ d.block = chain[v][i] /\ d.view = x
        BY <2>3 DEF CommittedIn, VotedIn
    <2>6. d.height = b.height
        BY <2>2, <2>5, Zenon DEF AllInv, CastOnce
    <2>7. c = d
        BY <1>2, <1>3, <2>4, <2>5, <2>6, Zenon DEF AllInv, CastOnce
    <2> QED BY <1>2, <2>2, <2>5, <2>7, Zenon
<1> QED BY <1>1, <1>3, <1>4, <1>5

\* Votes that were cast stay, and what rests on them, as long as v does not vote
\* at a height that it has left.
LEMMA CommittedStays ==
    ASSUME cast \subseteq cast', NEW v, NEW b, NEW x \in Nat, CommittedIn(v, b, x),
           view[v] \in Nat, view'[v] \in Nat, view'[v] >= view[v],
           \A c \in cast' \ cast : c.voter = v => c.height # b.height
    PROVE  CommittedIn(v, b, x)'
BY DEF CommittedIn, VotedIn

\* Steps that leave the votes and the chains alone.
LEMMA AllStutter ==
    ASSUME AllInv, UNCHANGED <<chain, votes, view, cast>>, HeightInv',
           proposals \subseteq proposals'
    PROVE  AllInv'
<1>1. ChainShape'
    <2>1. Sent \subseteq Sent'
        BY DEF Sent
    <2>2. \A v \in Correct : chain[v] \in Seq(Sent')
        BY <2>1 DEF AllInv, ChainShape
    <2> QED BY <2>2 DEF AllInv, ChainShape
<1>2. CastOnce'
    BY DEF AllInv, CastOnce
<1>3. StoredInView'
    BY DEF AllInv, StoredInView, VotedIn
<1>4. CommittedByAll'
    BY DEF AllInv, CommittedByAll, CommittedIn, VotedIn
<1> QED BY <1>1, <1>2, <1>3, <1>4 DEF AllInv

\* A vote is cast at the current height.
LEMMA AllHandleProposal ==
    ASSUME AllInv, NEW v \in Correct, NEW b \in Sent, HandleProposal(v, b)
    PROVE  AllInv'
<1>0. /\ UNCHANGED <<chain, votes, view, proposals>>
      /\ cast \subseteq cast'
      /\ b.height \in Nat
    BY Zenon DEF HandleProposal, AllInv, HeightInv, Sent
<1>1. \A u \in Correct : view[u] \in Nat /\ chain[u] \in Seq(Sent) /\ Len(chain[u]) \in Nat
    BY DEF AllInv, ChainShape
<1>2. \A c \in cast' \ cast :
        /\ c = [voter |-> v, height |-> b.height, view |-> view[v], block |-> b]
        /\ b.height = Len(chain[v])
        /\ \A d \in cast : ~(d.voter = v /\ d.height = b.height /\ d.view = view[v])
    BY Zenon DEF HandleProposal, current_height
<1>3. ChainShape' /\ HeightInv'
    BY <1>0, Zenon DEF AllInv, ChainShape, HeightInv, Sent
<1>4. CastOnce'
    <2>1. \A c \in cast' :
            /\ c.voter \in Correct
            /\ c.height \in Nat /\ c.height <= Len(chain[c.voter])
            /\ c.view \in Nat /\ c.view <= view[c.voter]
            /\ c.block.height = c.height
        <3> TAKE c \in cast'
        <3>1. CASE c \in cast
            BY <3>1, Zenon DEF AllInv, CastOnce
        <3>2. CASE c \notin cast
            BY <1>0, <1>1, <1>2, <3>2
        <3> QED BY <3>1, <3>2, Zenon
    <2>2. ASSUME NEW c \in cast', NEW d \in cast',
                 c.voter = d.voter, c.height = d.height, c.view = d.view
          PROVE  c = d
        <3>1. CASE c \in cast /\ d \in cast
            BY <2>2, <3>1, Zenon DEF AllInv, CastOnce
        <3>2. CASE c \notin cast \/ d \notin cast
            BY <1>2, <2>2, <3>2
        <3> QED BY <3>1, <3>2
    <2> QED BY <1>0, <2>1, <2>2, Zenon DEF CastOnce
<1>5. StoredInView'
    BY <1>0, Zenon DEF AllInv, StoredInView, VotedIn
<1>6. CommittedByAll'
    <2> SUFFICES ASSUME NEW u \in Correct, NEW i \in DOMAIN chain[u]
                 PROVE  \E x \in Nat : CommittedIn(u, chain[u][i], x)'
        BY <1>0, Zenon DEF AllInv, CommittedByAll
    <2> DEFINE e == chain[u][i]
    <2>1. e.height = i - 1 /\ i \in 1..Len(chain[u])
        BY <1>1 DEF AllInv, CommittedByAll
    <2>2. PICK x \in Nat : CommittedIn(u, e, x)
        BY Zenon DEF AllInv, CommittedByAll
    <2>3. \A c \in cast' \ cast : c.voter = u => c.height # e.height
        <3>1. \A c \in cast' \ cast : c.voter = v /\ c.height = Len(chain[v])
            <4> SUFFICES ASSUME NEW c \in cast' \ cast
                         PROVE  c.voter = v /\ c.height = Len(chain[v])
                BY Zenon
            <4>1. PICK h, w : /\ h = Len(chain[v])
                              /\ c = [voter |-> v, height |-> h, view |-> w, block |-> b]
                BY <1>2, Zenon
            <4> QED BY <4>1, Zenon
        <3> HIDE DEF e
        <3> QED BY <1>1, <2>1, <3>1
    <2>4. \A d : d = e => CommittedIn(u, d, x)'
        <3> HIDE DEF e
        <3> QED BY <1>0, <1>1, <2>2, <2>3, CommittedStays
    <2>5. chain'[u][i] = e
        BY <1>0
    <2>6. CommittedIn(u, chain[u][i], x)'
        BY <2>4, <2>5, Zenon DEF CommittedIn, VotedIn
    <2> QED BY <2>6, Zenon
<1> QED BY <1>3, <1>4, <1>5, <1>6 DEF AllInv

\* receive_vote takes votes of the current height and view.
LEMMA AllReceiveVote ==
    ASSUME AllInv, NEW v \in Correct, NEW c \in Votes(v), ReceiveVote(v, c)
    PROVE  AllInv'
<1>1. UNCHANGED <<chain, view, proposals, cast>>
    BY Zenon DEF ReceiveVote
<1>2. \A u \in Correct : votes'[u] =
        IF u = v THEN votes[u] \cup {<<c.block, c.voter>>} ELSE votes[u]
    BY Zenon DEF AllInv, ChainShape, ReceiveVote
<1>3. ASSUME c.voter \in Correct
      PROVE  VotedIn(c.voter, c.block, view[v]) /\ c.block.height = Len(chain[v])
    <2>1. c \in cast
        BY <1>3 DEF Votes, Correct
    <2> QED BY <1>3, <2>1, Zenon DEF VotedIn, AllInv, CastOnce, ReceiveVote, current_height
<1>4. \A u \in Correct : chain[u] \in Seq(Sent) /\ Len(chain[u]) \in Nat
    BY DEF AllInv, ChainShape
<1>5. ChainShape' /\ HeightInv' /\ CastOnce'
    BY <1>1, Zenon DEF AllInv, ChainShape, HeightInv, CastOnce, ReceiveVote, Sent
<1>6. StoredInView'
    <2> SUFFICES ASSUME NEW u \in Correct, NEW t \in votes'[u], t[2] \in Correct
                 PROVE  VotedIn(t[2], t[1], view[u]) /\ t[1].height <= Len(chain[u])
        BY <1>1 DEF StoredInView, VotedIn
    <2>1. CASE t \in votes[u]
        BY <2>1, Zenon DEF AllInv, StoredInView
    <2>2. CASE u = v /\ t = <<c.block, c.voter>>
        BY <1>3, <1>4, <2>2
    <2> QED BY <1>2, <2>1, <2>2, ZenonT(40)
<1>7. CommittedByAll'
    <2> SUFFICES ASSUME NEW u \in Correct, NEW i \in DOMAIN chain[u], NEW w \in Correct,
                        <<chain[u][i], w>> \in votes'[u]
                 PROVE  FALSE
        BY <1>1 DEF AllInv, CommittedByAll, CommittedIn, VotedIn
    <2>1. chain[u][i].height = i - 1 /\ <<chain[u][i], w>> \notin votes[u]
        BY Zenon DEF AllInv, CommittedByAll
    <2>2. u = v /\ <<chain[u][i], w>> = <<c.block, c.voter>>
        BY <1>2, <2>1, Zenon
    <2>3. i - 1 = Len(chain[u])
        BY <1>3, <2>1, <2>2, Zenon
    <2> QED BY <1>4, <2>3
<1> QED BY <1>5, <1>6, <1>7 DEF AllInv

\* Every validator voted for what v commits, in the view that v is in, which is
\* the highest one that v has voted in.
LEMMA AllTryCommit ==
    ASSUME N < 4, AllInv, NEW v \in Correct, NEW b \in Sent, TryCommit(v, b)
    PROVE  AllInv'
<1>1. /\ UNCHANGED <<view, proposals, cast>>
      /\ DOMAIN chain' = Correct /\ DOMAIN votes' = Correct
      /\ \A u \in Correct \ {v} : chain'[u] = chain[u] /\ votes'[u] = votes[u]
      /\ chain'[v] = Append(chain[v], b)
      /\ votes'[v] = {t \in votes[v] : t[1] # b}
    BY Zenon DEF AllInv, ChainShape, TryCommit
<1>2. \A w \in Correct : <<b, w>> \in votes[v]
    BY QuorumIsEveryone DEF TryCommit
<1>3. b.height = Len(chain[v]) /\ \A w \in Correct : VotedIn(w, b, view[v])
    BY <1>2, EveryoneIsAtHeight, ZenonT(40)
<1>4. \A u \in Correct : chain[u] \in Seq(Sent) /\ Len(chain[u]) \in Nat /\ view[u] \in Nat
    BY DEF AllInv, ChainShape
<1>5. /\ chain'[v] \in Seq(Sent) /\ Len(chain'[v]) = Len(chain[v]) + 1
      /\ DOMAIN chain'[v] = 1..(Len(chain[v]) + 1)
      /\ \A i \in 1..Len(chain[v]) : chain'[v][i] = chain[v][i]
      /\ chain'[v][Len(chain[v]) + 1] = b
    <2>1. chain[v] \in Seq(Sent)
        BY <1>4, Zenon
    <2> QED BY <1>1, <2>1, AppendProperties
<1>6. ChainShape' /\ HeightInv'
    <2>1. Sent' = Sent
        BY <1>1, Zenon DEF Sent
    <2>2. \A u \in Correct : chain'[u] \in Seq(Sent)
        BY <1>1, <1>4, <1>5, Zenon
    <2> QED BY <1>1, <2>1, <2>2, Zenon DEF AllInv, ChainShape, HeightInv
<1>7. \A u \in Correct : Len(chain'[u]) \in Nat /\ Len(chain'[u]) >= Len(chain[u])
    BY <1>1, <1>4, <1>5
<1>8. CastOnce'
    <2>1. \A c \in cast : c.voter \in Correct /\ c.height \in Nat /\ c.height <= Len(chain[c.voter])
        BY DEF AllInv, CastOnce
    <2>2. \A c \in cast : c.height <= Len(chain'[c.voter])
        BY <1>4, <1>7, <2>1
    <2> QED BY <1>1, <2>2, Zenon DEF AllInv, CastOnce
<1>9. StoredInView'
    <2> SUFFICES ASSUME NEW u \in Correct, NEW t \in votes'[u], t[2] \in Correct
                 PROVE  VotedIn(t[2], t[1], view[u]) /\ t[1].height <= Len(chain'[u])
        BY <1>1, ZenonT(40) DEF StoredInView, VotedIn
    <2>1. t \in votes[u]
        BY <1>1, Zenon
    <2>2. VotedIn(t[2], t[1], view[u]) /\ t[1].height <= Len(chain[u])
        BY <2>1, Zenon DEF AllInv, StoredInView
    <2>3. t[1].height \in Nat
        BY <2>2, Zenon DEF VotedIn, AllInv, CastOnce
    <2> QED BY <1>4, <1>7, <2>2, <2>3
<1>10. CommittedByAll'
    <2> SUFFICES ASSUME NEW u \in Correct, NEW i \in DOMAIN chain'[u]
                 PROVE  /\ chain'[u][i].height = i - 1
                        /\ \E x \in Nat : CommittedIn(u, chain[u][i], x)'
                        /\ \A w \in Correct : <<chain'[u][i], w>> \notin votes'[u]
        BY Zenon DEF CommittedByAll
    <2>1. \A x \in Nat : CommittedIn(u, chain'[u][i], x) => CommittedIn(u, chain[u][i], x)'
        BY <1>1, Zenon DEF CommittedIn, VotedIn
    <2>2. CASE i \in DOMAIN chain[u] /\ chain'[u][i] = chain[u][i]
        <3>1. votes'[u] \subseteq votes[u]
            BY <1>1, Zenon
        <3>2. /\ chain[u][i].height = i - 1
              /\ \A w \in Correct : <<chain[u][i], w>> \notin votes[u]
            BY <2>2, Zenon DEF AllInv, CommittedByAll
        <3>3. \E x \in Nat : CommittedIn(u, chain'[u][i], x)
            BY <2>2, Zenon DEF AllInv, CommittedByAll
        <3> QED BY <2>1, <2>2, <3>1, <3>2, <3>3, Zenon
    <2>3. CASE u = v /\ i = Len(chain[v]) + 1
        <3>1. chain'[u][i] = b /\ i - 1 = Len(chain[v])
            BY <1>4, <1>5, <2>3
        <3>2. CommittedIn(v, b, view[v])
            <4>1. \A c \in cast : c.voter = v => c.view <= view[v]
                BY Zenon DEF AllInv, CastOnce
            <4> QED BY <1>3, <1>4, <4>1 DEF CommittedIn
        <3>3. \A w \in Correct : <<b, w>> \notin votes'[v]
            BY <1>1, Zenon
        <3>4. \E x \in Nat : CommittedIn(u, chain'[u][i], x)
            BY <1>4, <2>3, <3>1, <3>2, Zenon
        <3>5. chain'[u][i].height = i - 1
            BY <1>3, <3>1, Zenon
        <3>6. \A w \in Correct : <<chain'[u][i], w>> \notin votes'[u]
            BY <2>3, <3>1, <3>3, Zenon
        <3> QED BY <2>1, <3>4, <3>5, <3>6, Zenon
    <2>4. DOMAIN chain[v] = 1..Len(chain[v])
        BY <1>4
    <2>5. \/ i \in DOMAIN chain[u] /\ chain'[u][i] = chain[u][i]
          \/ u = v /\ i = Len(chain[v]) + 1
        <3>1. CASE u = v
            <4>1. i \in 1..(Len(chain[v]) + 1)
                BY <1>5, <3>1, Zenon
            <4>2. i \in 1..Len(chain[v]) \/ i = Len(chain[v]) + 1
                BY <1>4, <4>1
            <4> QED BY <1>5, <2>4, <3>1, <4>2, Zenon
        <3>2. CASE u # v
            BY <1>1, <3>2, Zenon
        <3> QED BY <3>1, <3>2, Zenon
    <2> QED BY <2>2, <2>3, <2>5, Zenon
<1> QED BY <1>6, <1>8, <1>9, <1>10 DEF AllInv

\* trigger_view_change drops the votes of the view that v leaves.
LEMMA AllViewChange ==
    ASSUME AllInv, NEW v \in Correct, TriggerViewChange(v)
    PROVE  AllInv'
<1>1. /\ UNCHANGED <<chain, proposals, cast>>
      /\ DOMAIN votes' = Correct
      /\ view' \in [Correct -> Nat]
      /\ \A u \in Correct : view'[u] >= view[u]
      /\ \A u \in Correct \ {v} : view'[u] = view[u] /\ votes'[u] = votes[u]
      /\ votes'[v] = {}
    BY DEF AllInv, ChainShape, TriggerViewChange
<1>2. \A u \in Correct : view[u] \in Nat /\ view'[u] \in Nat
    BY <1>1, Zenon DEF AllInv, ChainShape
<1>3. ChainShape' /\ HeightInv'
    BY <1>1, Zenon DEF AllInv, ChainShape, HeightInv, Sent
<1>4. CastOnce'
    <2>1. \A c \in cast : c.voter \in Correct /\ c.view \in Nat /\ c.view <= view[c.voter]
        BY Zenon DEF AllInv, CastOnce
    <2>2. \A c \in cast : c.view <= view'[c.voter]
        BY <1>1, <1>2, <2>1
    <2> QED BY <1>1, <2>2, Zenon DEF AllInv, CastOnce
<1>5. StoredInView'
    <2> SUFFICES ASSUME NEW u \in Correct, NEW t \in votes'[u], t[2] \in Correct
                 PROVE  VotedIn(t[2], t[1], view'[u]) /\ t[1].height <= Len(chain[u])
        BY <1>1, Zenon DEF StoredInView, VotedIn
    <2>1. u # v /\ t \in votes[u] /\ view'[u] = view[u]
        BY <1>1, Zenon
    <2> QED BY <2>1, Zenon DEF AllInv, StoredInView
<1>6. CommittedByAll'
    <2> SUFFICES ASSUME NEW u \in Correct, NEW i \in DOMAIN chain[u]
                 PROVE  /\ \E x \in Nat : CommittedIn(u, chain[u][i], x)'
                        /\ \A w \in Correct : <<chain[u][i], w>> \notin votes'[u]
        BY <1>1, ZenonT(40) DEF AllInv, CommittedByAll
    <2>1. PICK x \in Nat : CommittedIn(u, chain[u][i], x)
        BY Zenon DEF AllInv, CommittedByAll
    <2>2. CommittedIn(u, chain[u][i], x)'
        <3>1. \A e : CommittedIn(u, e, x) => CommittedIn(u, e, x)'
            BY <1>1, <1>2 DEF CommittedIn, VotedIn
        <3>2. chain'[u][i] = chain[u][i]
            BY <1>1, Zenon
        <3> QED BY <2>1, <3>1, <3>2 DEF CommittedIn, VotedIn
    <2>3. \A w \in Correct : <<chain[u][i], w>> \notin votes'[u]
        BY <1>1, Zenon DEF AllInv, CommittedByAll
    <2> QED BY <2>2, <2>3, Zenon
<1> QED BY <1>3, <1>4, <1>5, <1>6 DEF AllInv

\* What propose sends.
LEMMA Proposed ==
    ASSUME NEW v, Propose(v)
    PROVE  \E p : /\ proposals' = proposals \cup {p}
                  /\ p.by = v /\ p.block.height = current_height(v) /\ p.block.prev = last_hash(v)
<1>1. PICK h, ns, prev, w : h = current_height(v) /\ ns = pending[v] /\ prev = last_hash(v) /\ w = view[v]
    BY Zenon
<1>2. PICK b : b = [height |-> h, leader |-> v, nullifiers |-> ns, prev |-> prev]
    BY Zenon
<1>3. PICK p : p = [by |-> v, view |-> w, block |-> b]
    BY Zenon
<1>4. p.by = v /\ p.block = b /\ b.height = h /\ b.prev = prev
    BY <1>2, <1>3, Zenon
<1>5. proposals' = proposals \cup {p}
    BY <1>1, <1>2, <1>3, Zenon DEF Propose, Block
<1> QED BY <1>1, <1>4, <1>5, Zenon

\* What a validator that does not follow the protocol sends.
LEMMA FaultyProposed ==
    ASSUME NEW f, NEW h, NEW ns, FaultyPropose(f, h, ns)
    PROVE  \E p : proposals' = proposals \cup {p} /\ p.block.height = h
<1>1. PICK prev : proposals' = proposals \cup
                    {[by |-> f, view |-> 0, block |-> Block(h, f, ns, prev)]}
    BY Zenon DEF FaultyPropose
<1>2. PICK b : b = [height |-> h, leader |-> f, nullifiers |-> ns, prev |-> prev]
    BY Zenon
<1>3. PICK p : p = [by |-> f, view |-> 0, block |-> b]
    BY Zenon
<1>4. p.block = b /\ b.height = h
    BY <1>2, <1>3
<1>5. proposals' = proposals \cup {p}
    BY <1>1, <1>2, <1>3, Zenon DEF Block
<1> QED BY <1>4, <1>5, Zenon

\* It holds in the first state.
LEMMA AllInit == ASSUME Init PROVE AllInv
<1>1. ChainShape
    BY DEF Init, ChainShape
<1>2. HeightInv /\ CastOnce
    BY Zenon DEF Init, HeightInv, CastOnce
<1>3. StoredInView
    BY DEF Init, StoredInView
<1>4. CommittedByAll
    BY DEF Init, CommittedByAll
<1> QED BY <1>1, <1>2, <1>3, <1>4 DEF AllInv

\* Every step keeps it.
LEMMA AllNext ==
    ASSUME N < 4, AllInv, [Next]_vars
    PROVE  AllInv'
<1>1. ASSUME NEW v \in Correct, NEW n \in Nullifiers, Submit(v, n)
      PROVE  AllInv'
    <2>1. UNCHANGED <<chain, votes, view, cast>> /\ proposals' = proposals
        BY <1>1 DEF Submit
    <2>2. HeightInv'
        BY <2>1 DEF AllInv, HeightInv
    <2> QED BY <2>1, <2>2, AllStutter
<1>2. ASSUME NEW v \in Correct, Propose(v)
      PROVE  AllInv'
    <2>1. UNCHANGED <<chain, votes, view, cast>> /\ proposals \subseteq proposals'
        BY <1>2, Zenon DEF Propose
    <2>2. current_height(v) \in Nat
        BY DEF AllInv, ChainShape, current_height
    <2>3. HeightInv'
        <3>1. PICK p : proposals' = proposals \cup {p} /\ p.block.height = current_height(v)
            BY <1>2, Proposed, Zenon
        <3> QED BY <2>2, <3>1, Zenon DEF AllInv, HeightInv
    <2> QED BY <2>1, <2>3, AllStutter, SMTT(30)
<1>3. ASSUME NEW v \in Correct, NEW b \in Sent, HandleProposal(v, b)
      PROVE  AllInv'
    BY <1>3, AllHandleProposal
<1>4. ASSUME NEW v \in Correct, NEW b \in Sent, TryCommit(v, b)
      PROVE  AllInv'
    BY <1>4, AllTryCommit
<1>5. ASSUME NEW v \in Correct, NEW c \in Votes(v), ReceiveVote(v, c)
      PROVE  AllInv'
    BY <1>5, AllReceiveVote
<1>6. ASSUME NEW v \in Correct, TriggerViewChange(v)
      PROVE  AllInv'
    BY <1>6, AllViewChange
<1>7. ASSUME NEW f \in Faulty, NEW h \in 0..(MaxHeight - 1), NEW ns \in SUBSET Nullifiers,
             FaultyPropose(f, h, ns)
      PROVE  AllInv'
    <2>1. UNCHANGED <<chain, votes, view, cast>> /\ proposals \subseteq proposals'
        BY <1>7, Zenon DEF FaultyPropose
    <2>2. h \in Nat
        OBVIOUS
    <2>3. HeightInv'
        <3>1. PICK p : proposals' = proposals \cup {p} /\ p.block.height = h
            BY <1>7, FaultyProposed, Zenon
        <3> QED BY <2>2, <3>1, Zenon DEF AllInv, HeightInv
    <2> QED BY <2>1, <2>3, AllStutter
<1>8. ASSUME UNCHANGED vars
      PROVE  AllInv'
    <2>1. UNCHANGED <<chain, votes, view, cast>> /\ proposals' = proposals
        BY <1>8 DEF vars
    <2>2. HeightInv'
        BY <2>1 DEF AllInv, HeightInv
    <2> QED BY <2>1, <2>2, AllStutter
<1> QED BY <1>1, <1>2, <1>3, <1>4, <1>5, <1>6, <1>7, <1>8, Zenon DEF Next

\* Of two that have committed at a height, each has voted for the other's block
\* too, and no later than in the view of its own.  So the views are one, and in
\* one view a validator votes once.
LEMMA AllAgree == AllInv => Agreement
<1> SUFFICES ASSUME AllInv, NEW v \in Correct, NEW w \in Correct,
                    NEW i \in DOMAIN chain[v] \cap DOMAIN chain[w]
             PROVE  chain[v][i] = chain[w][i]
    BY DEF Agreement
<1> DEFINE b == chain[v][i]
           d == chain[w][i]
<1>1. b.height = i - 1 /\ d.height = i - 1
    BY DEF AllInv, CommittedByAll
<1>2. PICK x \in Nat : CommittedIn(v, b, x)
    BY DEF AllInv, CommittedByAll
<1>3. PICK y \in Nat : CommittedIn(w, d, y)
    BY DEF AllInv, CommittedByAll
<1> HIDE DEF b, d
<1>4. PICK c \in cast : c.voter = v /\ c.block = d /\ c.view = y
    BY <1>3 DEF CommittedIn, VotedIn
<1>5. PICK e \in cast : e.voter = w /\ e.block = b /\ e.view = x
    BY <1>2 DEF CommittedIn, VotedIn
<1>6. PICK a \in cast : a.voter = v /\ a.block = b /\ a.view = x
    BY <1>2 DEF CommittedIn, VotedIn
<1>7. c.height = i - 1 /\ e.height = i - 1 /\ a.height = i - 1
    BY <1>1, <1>4, <1>5, <1>6, Zenon DEF AllInv, CastOnce
<1>8. y <= x /\ x <= y
    BY <1>1, <1>2, <1>3, <1>4, <1>5, <1>7, Zenon DEF CommittedIn
<1>9. a = c
    BY <1>4, <1>6, <1>7, <1>8 DEF AllInv, CastOnce
<1>10. b = d
    BY <1>4, <1>6, <1>9, Zenon
<1> QED BY <1>10, Zenon DEF b, d

\* With fewer than four validators no two correct ones commit different blocks
\* at a height, whatever the faulty ones send and however often anyone's timer
\* forces a view change: quorum_size asks for everyone's vote, and
\* trigger_view_change drops the votes of the view that is left.
THEOREM AgreementOfAll ==
    ASSUME N < 4
    PROVE  Spec => []Agreement
<1>1. Init => AllInv
    BY AllInit
<1>2. AllInv /\ [Next]_vars => AllInv'
    BY AllNext
<1>3. AllInv => Agreement
    BY AllAgree
<1> QED BY <1>1, <1>2, <1>3, PTL DEF Spec

-----------------------------------------------------------------------------
(* Linking, when all validators are correct *)

\* A proposal is on top of the block that its proposer has committed below it.
\* The proposer's chain may have grown since.
OnItsBlock(p) ==
    /\ p.by \in Correct
    /\ p.block.height \in 0..Len(chain[p.by])
    /\ p.block.prev =
        IF p.block.height = 0 THEN <<>> ELSE <<chain[p.by][p.block.height]>>

OnTop == \A p \in proposals : OnItsBlock(p)

\* Chains of sent blocks, each at its height: of IInv and of AllInv.
AtHeight ==
    /\ DOMAIN chain = Correct
    /\ \A v \in Correct :
        /\ chain[v] \in Seq(Sent)
        /\ \A i \in DOMAIN chain[v] : chain[v][i].height = i - 1

\* What is below a proposal stays there, since chains only grow.
LEMMA OnTopStays ==
    ASSUME NEW p, OnItsBlock(p),
           \A v \in Correct : Len(chain[v]) \in Nat /\ Len(chain'[v]) \in Nat,
           \A v \in Correct : Len(chain'[v]) >= Len(chain[v]),
           \A v \in Correct : \A i \in 1..Len(chain[v]) : chain'[v][i] = chain[v][i]
    PROVE  OnItsBlock(p)'
<1>1. p.by \in Correct /\ p.block.height \in 0..Len(chain[p.by])
    BY DEF OnItsBlock
<1>2. p.block.height \in 0..Len(chain'[p.by])
    BY <1>1
<1>3. p.block.height # 0 => chain'[p.by][p.block.height] = chain[p.by][p.block.height]
    BY <1>1, SMTT(30)
<1> QED BY <1>1, <1>2, <1>3, Zenon DEF OnItsBlock

\* Every step of correct validators, with nobody faulty, keeps it.
LEMMA OnTopNext ==
    ASSUME Faulty = {}, AtHeight, OnTop, [Next]_vars
    PROVE  OnTop'
<1>1. \A v \in Correct : chain[v] \in Seq(Sent) /\ Len(chain[v]) \in Nat
    BY DEF AtHeight
<1>2. CASE chain' = chain /\ proposals' = proposals
    BY <1>2, Zenon DEF OnTop, OnItsBlock
<1>3. ASSUME NEW v \in Correct, Propose(v)
      PROVE  OnTop'
    <2>1. PICK new : /\ chain' = chain /\ proposals' = proposals \cup {new} /\ new.by = v
                     /\ new.block.height = current_height(v) /\ new.block.prev = last_hash(v)
        <3>1. chain' = chain
            BY <1>3, Zenon DEF Propose
        <3> QED BY <1>3, <3>1, Proposed, Zenon
    <2>2. OnItsBlock(new)
        <3>1. chain[v] = <<>> <=> Len(chain[v]) = 0
            BY <1>1, EmptySeq
        <3> QED BY <1>1, <2>1, <3>1 DEF OnItsBlock, current_height, last_hash
    <2>3. \A p \in proposals' : OnItsBlock(p)
        BY <2>1, <2>2 DEF OnTop
    <2> QED BY <2>1, <2>3, Zenon DEF OnTop, OnItsBlock
<1>4. ASSUME NEW v \in Correct, NEW b \in Sent, TryCommit(v, b)
      PROVE  OnTop'
    <2>1. /\ proposals' = proposals
          /\ \A u \in Correct \ {v} : chain'[u] = chain[u]
          /\ chain'[v] = Append(chain[v], b)
        BY <1>4, Zenon DEF TryCommit, AtHeight
    <2>2. /\ Len(chain'[v]) = Len(chain[v]) + 1
          /\ \A i \in 1..Len(chain[v]) : chain'[v][i] = chain[v][i]
        <3>1. chain[v] \in Seq(Sent)
            BY <1>1
        <3> QED BY <2>1, <3>1, AppendProperties
    <2>3. \A u \in Correct : /\ Len(chain'[u]) \in Nat /\ Len(chain'[u]) >= Len(chain[u])
                             /\ \A i \in 1..Len(chain[u]) : chain'[u][i] = chain[u][i]
        <3> SUFFICES ASSUME NEW u \in Correct
                     PROVE  /\ Len(chain'[u]) \in Nat /\ Len(chain'[u]) >= Len(chain[u])
                            /\ \A i \in 1..Len(chain[u]) : chain'[u][i] = chain[u][i]
            OBVIOUS
        <3>1. Len(chain[u]) \in Nat
            BY <1>1
        <3>2. CASE u = v
            BY <2>2, <3>1, <3>2
        <3>3. CASE u # v
            <4>1. chain'[u] = chain[u]
                BY <2>1, <3>3
            <4> QED BY <3>1, <4>1
        <3> QED BY <3>2, <3>3, Zenon
    <2>4. \A p : OnItsBlock(p) => OnItsBlock(p)'
        BY <1>1, <2>3, OnTopStays, Zenon
    <2> QED BY <2>1, <2>4, Zenon DEF OnTop
<1>5. CASE \E v \in Correct : Propose(v)
    BY <1>3, <1>5
<1>6. CASE \E v \in Correct, b \in Sent : TryCommit(v, b)
    BY <1>4, <1>6
<1> QED BY <1>2, <1>5, <1>6, ZenonT(40) DEF Next, vars, Submit, HandleProposal, ReceiveVote,
           TriggerViewChange

\* The block below in the proposer's chain is the one below in everyone's.
LEMMA OnTopLinks == AtHeight /\ OnTop /\ Agreement => ChainLinked
<1> SUFFICES ASSUME AtHeight, OnTop, Agreement, NEW v \in Correct, NEW i \in DOMAIN chain[v]
             PROVE  chain[v][i].prev = IF i = 1 THEN <<>> ELSE <<chain[v][i - 1]>>
    BY Zenon DEF ChainLinked, AtHeight
<1>1. /\ \A u \in Correct : chain[u] \in Seq(Sent) /\ DOMAIN chain[u] = 1..Len(chain[u])
                            /\ Len(chain[u]) \in Nat
      /\ chain[v][i].height = i - 1
    BY DEF AtHeight
<1>2. i \in 1..Len(chain[v]) /\ chain[v][i] \in Sent
    BY <1>1
<1>3. PICK p \in proposals : chain[v][i] = p.block
    BY <1>2, Zenon DEF Sent
<1>4. /\ p.by \in Correct
      /\ i - 1 \in 0..Len(chain[p.by])
      /\ p.block.prev = IF i - 1 = 0 THEN <<>> ELSE <<chain[p.by][i - 1]>>
    BY <1>1, <1>3, Zenon DEF OnTop, OnItsBlock
<1>5. CASE i = 1
    BY <1>3, <1>4, <1>5
<1>6. CASE i # 1
    <2>1. i - 1 # 0 /\ i - 1 \in DOMAIN chain[v] \cap DOMAIN chain[p.by]
        BY <1>1, <1>2, <1>4, <1>6
    <2>2. chain[p.by][i - 1] = chain[v][i - 1]
        BY <1>4, <2>1, Zenon DEF Agreement
    <2> QED BY <1>3, <1>4, <1>6, <2>1, <2>2, Zenon
<1> QED BY <1>5, <1>6, Zenon

\* With correct validators only, every committed block is on top of the block
\* committed before it and at its own height, although try_commit compares
\* neither height nor prev_hash, and receive_proposal does not look at prev_hash:
\* for any n = 3f + 1 without view changes, and with them for fewer than four.
THEOREM ChainLinkedHolds ==
    ASSUME Faulty = {}, N < 4 \/ (N % 3 = 1 /\ MaxView = 0)
    PROVE  Spec => []ChainLinked
<1>1. Init => OnTop
    BY DEF Init, OnTop
<1>2. CASE N < 4
    <2>1. AllInv => AtHeight /\ Agreement
        BY AllAgree, Zenon DEF AllInv, ChainShape, CommittedByAll, AtHeight
    <2>2. Init => AllInv /\ OnTop
        BY <1>1, AllInit
    <2>3. AllInv /\ OnTop /\ [Next]_vars => (AllInv /\ OnTop)'
        BY <1>2, <2>1, AllNext, OnTopNext
    <2>4. AllInv /\ OnTop => ChainLinked
        BY <2>1, OnTopLinks
    <2> QED BY <2>2, <2>3, <2>4, PTL DEF Spec
<1>3. CASE N % 3 = 1 /\ MaxView = 0
    <2>1. Sized
        <3>1. Cardinality(Faulty) = 0
            BY FS_EmptySet
        <3> QED BY <1>3, <3>1, ConsensusAssumption DEF Sized, max_faults
    <2>2. IInv => AtHeight /\ Agreement
        BY <2>1, InvAgrees, Zenon DEF IInv, ShapeInv, ChainInv, AtHeight
    <2>3. Init => IInv /\ OnTop
        BY <1>1, InitInv
    <2>4. IInv /\ OnTop /\ [Next]_vars => (IInv /\ OnTop)'
        BY <1>3, <2>1, <2>2, NextInv, OnTopNext
    <2>5. IInv /\ OnTop => ChainLinked
        BY <2>2, OnTopLinks
    <2> QED BY <2>3, <2>4, <2>5, PTL DEF Spec
<1> QED BY <1>2, <1>3
=============================================================================
