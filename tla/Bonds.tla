------------------------------- MODULE Bonds -------------------------------
(***************************************************************************)
(* BondRegistry of specter-offline/src/bonds.rs: collateral that owners    *)
(* stake for the tokens they spend offline.                                *)
(*                                                                         *)
(* The two hash maps of the registry are kept apart, since they can        *)
(* disagree: the bonds by their id, and owner_bonds, the id that an owner  *)
(* is looked up by.  A call that returns an error changes nothing and is   *)
(* no step.  The callers are the environment: their clock does not go      *)
(* back, and they settle what was registered, once.                        *)
(***************************************************************************)
EXTENDS Integers, FiniteSets, FiniteSetsExt

CONSTANTS
    Owners,       \* owner ids
    BondIds,      \* bond ids; a deposit draws one at random that was never
                  \* used: which one does not matter, the next is taken
    None,         \* no entry in owner_bonds, no owner of an unused id
    MaxU64,       \* u64::MAX
    LockPeriod,   \* lock_period_secs
    MaxTime       \* bound: the last time on the callers' clock

ASSUME BondsAssumption ==
    /\ BondIds \subseteq Nat
    /\ None \notin BondIds \cup Owners
    /\ MaxU64 \in Nat
    /\ LockPeriod \in Nat
    /\ MaxTime \in Nat

VARIABLES
    status,       \* status[b]: "unused", "active", "slashed" or, once it is
                  \* removed from the map, "withdrawn"
    owner,        \* owner[b]: owner_id
    amount,       \* amount[b]
    exposure,     \* exposure[b]: offline_exposure
    requested,    \* requested[b]: withdrawal_requested_at, 0 if not requested
    owner_bonds,  \* owner_bonds[o]: a bond id or None
    now,          \* the callers' clock
    offline,      \* history: offline[b] is the value that was registered
                  \* against b and has not been settled
    balance       \* history: balance[o] is what o paid in and did not get back

bondVars == <<status, owner, amount, exposure, requested, owner_bonds>>
bondsVars == <<bondVars, now, offline, balance>>

\* The id that the next deposit draws, if there is one left.
Drawn ==
    {b \in BondIds : /\ status[b] = "unused"
                     /\ \A c \in BondIds : status[c] = "unused" => b <= c}

U64 == 0..MaxU64
MAX_BOND_AMOUNT == MaxU64 \div 2

BondsInit ==
    /\ status = [b \in BondIds |-> "unused"]
    /\ owner = [b \in BondIds |-> None]
    /\ amount = [b \in BondIds |-> 0]
    /\ exposure = [b \in BondIds |-> 0]
    /\ requested = [b \in BondIds |-> 0]
    /\ owner_bonds = [o \in Owners |-> None]
    /\ now = 1
    /\ offline = [b \in BondIds |-> 0]
    /\ balance = [o \in Owners |-> 0]

-----------------------------------------------------------------------------
(* Lookups *)

\* The two lookups every operation starts with: NoBond if one of them fails.
HasBond(o) ==
    /\ owner_bonds[o] # None
    /\ status[owner_bonds[o]] \in {"active", "slashed"}

HasActiveBond(o) ==
    /\ owner_bonds[o] # None
    /\ status[owner_bonds[o]] = "active"

check_coverage(o, v) ==
    /\ HasActiveBond(o)
    /\ LET b == owner_bonds[o]
       IN  /\ exposure[b] + v \in U64
           /\ amount[b] >= exposure[b] + v

-----------------------------------------------------------------------------
(* Operations *)

\* Mutant: an existing bond is replaced, active or not.
DepositAgain(o, a) ==
    /\ a # 0
    /\ a <= MAX_BOND_AMOUNT
    /\ \E b \in Drawn :
        /\ status' = [status EXCEPT ![b] = "active"]
        /\ owner' = [owner EXCEPT ![b] = o]
        /\ amount' = [amount EXCEPT ![b] = a]
        /\ owner_bonds' = [owner_bonds EXCEPT ![o] = b]
    /\ balance' = [balance EXCEPT ![o] = @ + a]
    /\ UNCHANGED <<exposure, requested, now, offline>>

\* deposit: a slashed bond does not keep its owner from staking anew; it stays
\* in the map of bonds, where no owner finds it any more.
Deposit(o, a) ==
    /\ a # 0
    /\ a <= MAX_BOND_AMOUNT
    /\ ~HasActiveBond(o)
    /\ \E b \in Drawn :
        /\ status' = [status EXCEPT ![b] = "active"]
        /\ owner' = [owner EXCEPT ![b] = o]
        /\ amount' = [amount EXCEPT ![b] = a]
        /\ owner_bonds' = [owner_bonds EXCEPT ![o] = b]
    /\ balance' = [balance EXCEPT ![o] = @ + a]
    /\ UNCHANGED <<exposure, requested, now, offline>>

\* Mutant: the sum wraps around.
RegisterWrapping(o, v) ==
    /\ HasBond(o)
    /\ LET b == owner_bonds[o]
           total == (exposure[b] + v) % (MaxU64 + 1)
       IN  /\ status[b] = "active"
           /\ amount[b] >= total
           /\ exposure' = [exposure EXCEPT ![b] = total]
           /\ offline' = [offline EXCEPT ![b] = @ + v]
    /\ UNCHANGED <<status, owner, amount, requested, owner_bonds, now, balance>>

\* register_offline_spend: the sum is refused when it overflows or is more
\* than the bond.  A pending withdrawal is neither looked at nor cancelled.
RegisterOfflineSpend(o, v) ==
    /\ HasBond(o)
    /\ LET b == owner_bonds[o]
           total == exposure[b] + v
       IN  /\ status[b] = "active"
           /\ total \in U64
           /\ amount[b] >= total
           /\ exposure' = [exposure EXCEPT ![b] = total]
           /\ offline' = [offline EXCEPT ![b] = @ + v]
    /\ UNCHANGED <<status, owner, amount, requested, owner_bonds, now, balance>>

\* settle, when value v that owner o registered against bond r goes online.
\* The code takes it off the bond o is looked up by, slashed or not, and
\* saturates at 0.
Settle(o, r, v) ==
    /\ owner[r] = o
    /\ v <= offline[r]
    /\ HasBond(o)
    /\ exposure' = [exposure EXCEPT ![owner_bonds[o]] =
                        IF v <= @ THEN @ - v ELSE 0]
    /\ offline' = [offline EXCEPT ![r] = @ - v]
    /\ UNCHANGED <<status, owner, amount, requested, owner_bonds, now, balance>>

\* slash, with two different nullifiers as evidence: the bond stays, inactive.
Slash(o) ==
    /\ HasBond(o)
    /\ status[owner_bonds[o]] = "active"
    /\ status' = [status EXCEPT ![owner_bonds[o]] = "slashed"]
    /\ UNCHANGED <<owner, amount, exposure, requested, owner_bonds, now,
                   offline, balance>>

\* request_withdrawal starts the lock period, or starts it again.
RequestWithdrawal(o) ==
    /\ HasBond(o)
    /\ LET b == owner_bonds[o]
       IN  /\ status[b] = "active"
           /\ exposure[b] = 0
           /\ requested' = [requested EXCEPT ![b] = now]
    /\ UNCHANGED <<status, owner, amount, exposure, owner_bonds, now, offline, balance>>

\* Mutant: exposure taken on after the request is not looked at.
WithdrawExposed(o) ==
    /\ HasBond(o)
    /\ LET b == owner_bonds[o]
       IN  /\ status[b] = "active"
           /\ requested[b] # 0
           /\ now >= requested[b] + LockPeriod
           /\ status' = [status EXCEPT ![b] = "withdrawn"]
           /\ balance' = [balance EXCEPT ![o] = @ - amount[b]]
    /\ owner_bonds' = [owner_bonds EXCEPT ![o] = None]
    /\ UNCHANGED <<owner, amount, exposure, requested, now, offline>>

\* Mutant: the owner keeps the id of the bond that was paid out.
WithdrawKeepsId(o) ==
    /\ HasBond(o)
    /\ LET b == owner_bonds[o]
       IN  /\ status[b] = "active"
           /\ requested[b] # 0
           /\ now >= requested[b] + LockPeriod
           /\ exposure[b] = 0
           /\ balance' = [balance EXCEPT ![o] = @ - amount[b]]
    /\ UNCHANGED <<bondVars, now, offline>>

\* withdraw: the lock period is over and nothing is exposed; both entries are
\* removed and the amount is paid out.
Withdraw(o) ==
    /\ HasBond(o)
    /\ LET b == owner_bonds[o]
       IN  /\ status[b] = "active"
           /\ requested[b] # 0
           /\ now >= requested[b] + LockPeriod
           /\ exposure[b] = 0
           /\ status' = [status EXCEPT ![b] = "withdrawn"]
           /\ balance' = [balance EXCEPT ![o] = @ - amount[b]]
    /\ owner_bonds' = [owner_bonds EXCEPT ![o] = None]
    /\ UNCHANGED <<owner, amount, exposure, requested, now, offline>>

\* Time passes.
Tick ==
    /\ now < MaxTime
    /\ now' = now + 1
    /\ UNCHANGED <<bondVars, offline, balance>>

BondsNext ==
    \/ Tick
    \/ \E o \in Owners :
        \/ Slash(o) \/ RequestWithdrawal(o) \/ Withdraw(o)
        \/ \E v \in U64 :
            \/ Deposit(o, v)
            \/ RegisterOfflineSpend(o, v)
            \/ \E r \in BondIds : Settle(o, r, v)

BondsSpec == BondsInit /\ [][BondsNext]_bondsVars

-----------------------------------------------------------------------------
(* Properties *)

\* An owner has at most one active bond and is looked up by it; an id that an
\* owner is looked up by is a bond of that owner that was not paid out.  So
\* deposit never orphans collateral that can still be slashed.
OneActiveBond ==
    /\ \A b \in BondIds : status[b] = "active" => owner_bonds[owner[b]] = b
    /\ \A o \in Owners : owner_bonds[o] # None =>
        HasBond(o) /\ owner[owner_bonds[o]] = o

\* The registry pays out exactly what was paid in: what an owner has paid in
\* and not got back is the sum of the bonds that are staked or forfeited.
FundsConserved ==
    \A o \in Owners :
        balance[o] = MapThenSumSet(LAMBDA b : amount[b],
            {b \in BondIds : owner[b] = o /\ status[b] \in {"active", "slashed"}})

\* None of the owner's bonds was slashed.
Honest(o) == \A b \in BondIds : owner[b] = o => status[b] # "slashed"

\* A receiver who is told by check_coverage that a value is covered is right:
\* with the value added, what is offline against the owner's bond is no more
\* than the bond.  (After a slash and a new deposit, settle takes what was
\* offline against the old bond off the new one, and this fails.)
CoverageIsReal ==
    \A o \in Owners, v \in U64 :
        Honest(o) /\ check_coverage(o, v) =>
            offline[owner_bonds[o]] + v <= amount[owner_bonds[o]]

\* "cannot withdraw: offline exposure not settled": when a bond of such an
\* owner is paid out, nothing that was registered against it is still offline.
WithdrawnSettled ==
    \A b \in BondIds :
        status[b] = "withdrawn" /\ Honest(owner[b]) => offline[b] = 0
=============================================================================
