------------------------- MODULE CallFramesProofs -------------------------
(***************************************************************************)
(* Proofs about CallFrames, for every set of addresses, codes and          *)
(* messages, every cost and every depth limit.                             *)
(*                                                                         *)
(* Every instruction has one of three outcomes: its frame goes on, it      *)
(* calls, or it leaves.  The first part shows, handler by handler, which   *)
(* outcome comes with which gas and which accounts (Instructions); the     *)
(* theorems then only look at the three outcomes.                          *)
(***************************************************************************)
EXTENDS CallFrames, TLAPS

\* No gas operand is negative once it is cast to int64_t.
Unsigned == \A w \in GasOperands : to_int64(w) >= 0

Code == Codes \cup {NoCode}

\* What one instruction may do to the accounts before its frame leaves: no account
\* disappears or changes its code, a new one has none, and a static frame changes
\* nothing of an account that is there.
Mild(accs) ==
    /\ IsAccounts(accs)
    /\ DOMAIN accounts \subseteq DOMAIN accs
    /\ \A a \in DOMAIN accounts :
          /\ accs[a].code = accounts[a].code
          /\ frame.is_static => accs[a] = accounts[a]
    /\ \A a \in DOMAIN accs \ DOMAIN accounts : accs[a].code = NoCode

\* The frame goes on.
GoesOn ==
    \E gas \in Nat : \E accs :
        /\ Continue(gas, accs) /\ Mild(accs)
        /\ Unsigned => gas <= frame.gas

\* The frame calls: what handle_call and handle_create know of the frame they start.
Starts(callee, accs) ==
    /\ callee \in Frame
    /\ callee.gas = callee.limit
    /\ frame.is_static => callee.is_static
    /\ callee.creates => /\ ~callee.is_static
                         /\ callee.code_address = NoAddress
                         /\ callee.recipient \in DOMAIN accs \ DOMAIN accounts
    /\ callee.code_address # NoAddress =>
          /\ callee.code_address \in DOMAIN accs
          /\ accs[callee.code_address].code = callee.code

CallsOut ==
    \E gas \in Nat : \E accs, callee :
        /\ Push(gas, accs, callee) /\ Mild(accs) /\ Starts(callee, accs)
        /\ ~TooDeep
        /\ callee.limit <= gas
        /\ Unsigned => callee.limit >= 0 /\ gas <= frame.gas

\* The frame leaves.
Errors == {"FAILURE", "OUT_OF_GAS", "STATIC_MODE_VIOLATION"}

Leaves ==
    \E status \in Errors \cup {"SUCCESS", "REVERT"}, gas \in Nat, output \in Code :
    \E accs :
        /\ Leave(status, gas, output, accs) /\ Mild(accs)
        /\ GasLeft(status, gas) \in Nat
        /\ GasLeft(status, gas) = 0 \/ GasLeft(status, gas) <= frame.gas

Outcome == GoesOn \/ CallsOut \/ Leaves

-----------------------------------------------------------------------------
(* The accounts.                                                           *)

\* The frame that runs is the last one.
LEMMA TopType ==
    ASSUME TypeOK, Running
    PROVE  frame \in Frame /\ Len(frames) \in Nat /\ Len(frames) \in 1..Len(frames)
  BY DEF TypeOK, Running, frame

\* Accounts left as they are have changed mildly.
LEMMA Unchanged ==
    ASSUME TypeOK
    PROVE  Mild(accounts)
  BY DEF TypeOK, Mild

\* Fail with the accounts as they are, or as an instruction left them.
LEMMA Failure ==
    ASSUME NEW status \in Errors, NEW accs, Mild(accs), Fail(status, accs)
    PROVE  Leaves
  <1>1. GasLeft(status, 0) = 0 /\ NoCode \in Code
    BY DEF GasLeft, Code, Errors
  <1>2. Leave(status, 0, NoCode, accs)
    BY DEF Fail
  <1> QED  BY <1>1, <1>2 DEF Leaves

\* The values an account may have.
LEMMA AccountFields ==
    ASSUME NEW acc \in Account
    PROVE  /\ acc.balance \in 0..WordMod - 1 /\ acc.code \in Code
           /\ acc.storage \in Maps /\ acc.transient_storage \in Maps
           /\ acc = [balance |-> acc.balance, code |-> acc.code, storage |-> acc.storage,
                     transient_storage |-> acc.transient_storage]
  BY DEF Account, Code

\* The account accounts[a] = {} makes: no storage, no code.
LEMMA EmptyAccount == NewAccount \in Account /\ NewAccount.code = NoCode
  <1>1. << >> \in [{} -> Words]
    OBVIOUS
  <1>2. {} \in SUBSET Keys
    OBVIOUS
  <1>3. << >> \in Maps
    BY <1>1, <1>2 DEF Maps
  <1>4. 0 \in 0..WordMod - 1
    BY WordAssumption
  <1> QED  BY <1>3, <1>4 DEF Account, NewAccount

\* accounts[a] = {} for an address that has no account.
LEMMA Adding ==
    ASSUME TypeOK, NEW a \in Addresses
    PROVE  /\ Mild(WithAccount(accounts, a))
           /\ DOMAIN WithAccount(accounts, a) = DOMAIN accounts \cup {a}
           /\ \A b \in DOMAIN accounts : WithAccount(accounts, a)[b] = accounts[b]
           /\ a \notin DOMAIN accounts => WithAccount(accounts, a)[a] = NewAccount
  BY EmptyAccount DEF TypeOK, Mild, IsAccounts, WithAccount

\* A sum or a difference of words is a word.
LEMMA WordRange ==
    ASSUME NEW n \in Int
    PROVE  n % WordMod \in 0..WordMod - 1
  BY WordAssumption

\* A number below the modulus is its own remainder.
LEMMA SmallWord ==
    ASSUME NEW d \in Nat \ {0}, NEW n \in 0..d - 1
    PROVE  n % d = n
  OBVIOUS

\* An account with another balance.
LEMMA NewBalance ==
    ASSUME NEW accs, IsAccounts(accs), NEW a \in DOMAIN accs, NEW n \in Int
    PROVE  LET paid == [accs EXCEPT ![a].balance = n % WordMod]
           IN  /\ IsAccounts(paid)
               /\ DOMAIN paid = DOMAIN accs
               /\ \A b \in DOMAIN accs : b # a => paid[b] = accs[b]
               /\ paid[a].code = accs[a].code
               /\ paid[a].balance = n % WordMod
               /\ n = accs[a].balance => paid[a] = accs[a]
  <1> DEFINE paid == [accs EXCEPT ![a].balance = n % WordMod]
             acc  == accs[a]
  <1>1. acc \in Account
    BY DEF IsAccounts
  <1>2. /\ DOMAIN paid = DOMAIN accs
        /\ \A b \in DOMAIN accs : b # a => paid[b] = accs[b]
        /\ paid[a] = [acc EXCEPT !.balance = n % WordMod]
    OBVIOUS
  <1>3. [acc EXCEPT !.balance = n % WordMod] =
            [balance |-> n % WordMod, code |-> acc.code, storage |-> acc.storage,
             transient_storage |-> acc.transient_storage]
    BY <1>1 DEF Account
  <1>4. n % WordMod \in 0..WordMod - 1
    BY WordRange
  <1>5. paid[a] \in Account
    BY <1>1, <1>2, <1>3, <1>4, AccountFields DEF Account
  <1>6. n = acc.balance => n % WordMod = n
    BY <1>1, WordAssumption, AccountFields, SmallWord
  <1>7. n = acc.balance => paid[a] = acc
    BY <1>1, <1>2, <1>3, <1>6, AccountFields
  <1>8. IsAccounts(paid)
    BY <1>2, <1>5 DEF IsAccounts
  <1> QED  BY <1>2, <1>3, <1>7, <1>8

\* What a transfer of value makes of the accounts.
Moved(accs, after, value) ==
    /\ IsAccounts(after) /\ DOMAIN after = DOMAIN accs
    /\ \A a \in DOMAIN accs : /\ after[a].code = accs[a].code
                              /\ value = 0 => after[a] = accs[a]

\* The transfer of handle_call keeps every code, and a transfer of nothing keeps all.
LEMMA Transferring ==
    ASSUME NEW accs, IsAccounts(accs), NEW from \in DOMAIN accs, NEW to \in DOMAIN accs,
           NEW value \in Nat
    PROVE  Moved(accs, Transfer(accs, from, to, value), value)
  <1> DEFINE paid  == [accs EXCEPT ![from].balance = (@ - value) % WordMod]
             moved == [paid EXCEPT ![to].balance = (value + @) % WordMod]
             m == accs[from].balance - value
             n == value + paid[to].balance
  <1>1. accs[from].balance \in Nat
    BY AccountFields, WordAssumption DEF IsAccounts
  <1>2. m \in Int /\ paid = [accs EXCEPT ![from].balance = m % WordMod]
    BY <1>1
  <1>3. /\ IsAccounts(paid) /\ DOMAIN paid = DOMAIN accs
        /\ \A b \in DOMAIN accs : b # from => paid[b] = accs[b]
        /\ paid[from].code = accs[from].code
        /\ m = accs[from].balance => paid[from] = accs[from]
    <2> HIDE DEF paid, m
    <2> QED  BY <1>2, NewBalance, ZenonT(60)
  <1>4. paid[to].balance \in Nat
    BY <1>3, AccountFields, WordAssumption DEF IsAccounts
  <1>5. n \in Int /\ moved = [paid EXCEPT ![to].balance = n % WordMod]
    BY <1>4
  <1>6. /\ IsAccounts(moved) /\ DOMAIN moved = DOMAIN paid
        /\ \A b \in DOMAIN paid : b # to => moved[b] = paid[b]
        /\ moved[to].code = paid[to].code
        /\ n = paid[to].balance => moved[to] = paid[to]
    <2> HIDE DEF paid, moved, n
    <2> QED  BY <1>3, <1>5, NewBalance
  <1>7. value = 0 => m = accs[from].balance /\ n = paid[to].balance
    BY <1>1, <1>4
  <1> HIDE DEF paid, moved, m, n
  <1>8. \A a \in DOMAIN accs : moved[a].code = accs[a].code
    BY <1>3, <1>6
  <1>9. value = 0 => \A a \in DOMAIN accs : moved[a] = accs[a]
    BY <1>3, <1>6, <1>7
  <1>10. Moved(accs, moved, value)
    BY <1>3, <1>6, <1>8, <1>9 DEF Moved
  <1> QED  BY <1>10 DEF Transfer, moved, paid

\* A map with a key set, whether the key is new or not.
LEMMA SetKey ==
    ASSUME NEW map \in Maps, NEW key \in Keys, NEW value \in Words
    PROVE  /\ [k \in DOMAIN map \cup {key} |-> IF k = key THEN value ELSE map[k]] \in Maps
           /\ key \in DOMAIN map => [map EXCEPT ![key] = value] \in Maps
  <1>1. PICK K \in SUBSET Keys : map \in [K -> Words]
    BY DEF Maps
  <1>2. [k \in K \cup {key} |-> IF k = key THEN value ELSE map[k]]
            \in [K \cup {key} -> Words]
    BY <1>1
  <1>3. K \cup {key} \in SUBSET Keys /\ DOMAIN map = K
    BY <1>1
  <1>4. key \in K => [map EXCEPT ![key] = value] \in [K -> Words]
    BY <1>1
  <1> QED  BY <1>2, <1>3, <1>4 DEF Maps

\* An account with another storage.
LEMMA NewStorage ==
    ASSUME TypeOK, ~frame.is_static, NEW a \in DOMAIN accounts, NEW accs,
           DOMAIN accs = DOMAIN accounts,
           \A b \in DOMAIN accounts : b # a => accs[b] = accounts[b],
           NEW map \in Maps,
           \/ accs[a] = [accounts[a] EXCEPT !.storage = map]
           \/ accs[a] = [accounts[a] EXCEPT !.transient_storage = map]
    PROVE  Mild(accs)
  <1>1. accounts[a] \in Account
    BY DEF TypeOK, IsAccounts
  <1>2. accs[a] \in Account /\ accs[a].code = accounts[a].code
    BY <1>1 DEF Account
  <1> QED  BY <1>2 DEF TypeOK, IsAccounts, Mild

\* A store changes the storage of the account that is there, if any.
LEMMA Storing ==
    ASSUME TypeOK, Running, ~frame.is_static, NEW key \in Keys, NEW value \in Words
    PROVE  /\ Mild(set_storage(frame.recipient, key, value))
           /\ Mild(set_transient_storage(frame.recipient, key, value))
  <1> DEFINE a == frame.recipient
             acc == accounts[a]
             stored == [acc.storage EXCEPT ![key] = value]
             passing == [k \in DOMAIN acc.transient_storage \cup {key} |->
                            IF k = key THEN value ELSE acc.transient_storage[k]]
             kept == [accounts EXCEPT ![a].storage[key] = value]
             set  == [accounts EXCEPT ![a].transient_storage =
                         [k \in DOMAIN @ \cup {key} |-> IF k = key THEN value ELSE @[k]]]
  <1>1. Mild(accounts)
    BY Unchanged
  <1>2. ASSUME a \in DOMAIN accounts
        PROVE  acc \in Account /\ acc.storage \in Maps /\ acc.transient_storage \in Maps
    BY <1>2, AccountFields DEF TypeOK, IsAccounts
  <1>3. ASSUME a \in DOMAIN accounts, key \in DOMAIN acc.storage
        PROVE  Mild(kept)
    <2>1. stored \in Maps
      BY <1>2, <1>3, SetKey
    <2>2. /\ DOMAIN kept = DOMAIN accounts
          /\ \A b \in DOMAIN accounts : b # a => kept[b] = accounts[b]
          /\ kept[a] = [acc EXCEPT !.storage = stored]
      BY <1>2, <1>3 DEF Account
    <2> HIDE DEF kept, stored
    <2> QED  BY <1>3, <2>1, <2>2, NewStorage
  <1>4. ASSUME a \in DOMAIN accounts
        PROVE  Mild(set)
    <2>1. passing \in Maps
      BY <1>2, <1>4, SetKey
    <2>2. /\ DOMAIN set = DOMAIN accounts
          /\ \A b \in DOMAIN accounts : b # a => set[b] = accounts[b]
          /\ set[a] = [acc EXCEPT !.transient_storage = passing]
      BY <1>2, <1>4 DEF Account
    <2> HIDE DEF set, passing
    <2> QED  BY <1>4, <2>1, <2>2, NewStorage
  <1>5. Mild(set_storage(a, key, value))
    BY <1>1, <1>3 DEF set_storage, account_exists
  <1>6. Mild(set_transient_storage(a, key, value))
    BY <1>1, <1>4 DEF set_transient_storage, account_exists
  <1> QED  BY <1>5, <1>6

-----------------------------------------------------------------------------
(* The outcome of every instruction.                                       *)

\* The frame goes on with the gas it has left.
LEMMA Continuing ==
    ASSUME NEW gas \in Nat, NEW accs, Mild(accs), Continue(gas, accs),
           Unsigned => gas <= frame.gas
    PROVE  GoesOn
  BY DEF GoesOn

\* The frame leaves with the gas it has left.
LEMMA Leaving ==
    ASSUME NEW status \in {"SUCCESS", "REVERT"}, NEW gas \in Nat, gas <= frame.gas,
           NEW output \in Code, NEW accs, Mild(accs), Leave(status, gas, output, accs)
    PROVE  Leaves
  <1>1. GasLeft(status, gas) = gas
    BY DEF GasLeft
  <1> QED  BY <1>1 DEF Leaves

\* The fields of the running frame.
LEMMA FrameFields ==
    ASSUME TypeOK, Running
    PROVE  /\ frame.gas \in Int /\ frame.rev \in Revision /\ frame.recipient \in Addresses
           /\ frame.sender \in Addresses /\ frame.is_static \in BOOLEAN
  BY TopType DEF Frame

\* The costs are numbers.
LEMMA CostTypes ==
    /\ CallCost \in Nat /\ ColdAccountCost \in Nat /\ ValueCost \in Nat /\ Stipend \in Nat
    /\ NewAccountCost \in Nat /\ CreateCost \in Nat /\ SstoreMinimum \in Nat
    /\ ColdSloadCost \in Nat /\ WarmAccess \in Nat /\ StoreReset \in Nat
    /\ TstoreCost \in Nat /\ SelfdestructCost \in Nat /\ ColdBeneficiary \in Nat
    /\ Stipend <= ValueCost
  BY CostAssumption DEF Costs

\* Instructions of the frame itself, and its end.
LEMMA OtherOutcome ==
    ASSUME TypeOK, Other
    PROVE  Outcome /\ Running
  <1>1. Mild(accounts)
    BY Unchanged
  <1>2. ASSUME NEW cost \in StepCosts, Execute(cost)
        PROVE  Outcome /\ Running
    <2>1. Running /\ cost \in Nat /\ frame.gas \in Int
      BY <1>2, FrameFields, CostAssumption DEF Execute
    <2>2. CASE frame.gas >= cost
      <3>1. Continue(frame.gas - cost, accounts) /\ frame.gas - cost \in Nat
        BY <1>2, <2>1, <2>2 DEF Execute
      <3> QED  BY <1>1, <2>1, <3>1, Continuing DEF Outcome
    <2>3. CASE ~(frame.gas >= cost)
      BY <1>1, <1>2, <2>1, <2>3, Failure DEF Errors, Execute, Outcome
    <2> QED  BY <2>2, <2>3
  <1>3. ASSUME NEW cost \in MemoryCosts, NEW output \in Code,
               NEW status \in {"SUCCESS", "REVERT"}, Return(status, cost, output)
        PROVE  Outcome /\ Running
    <2>1. Running /\ cost \in Nat /\ frame.gas \in Int
      BY <1>3, FrameFields, CostAssumption DEF Return
    <2>2. CASE frame.gas >= cost
      <3>1. Leave(status, frame.gas - cost, output, accounts) /\ frame.gas - cost \in Nat
        BY <1>3, <2>1, <2>2 DEF Return
      <3>2. frame.gas - cost <= frame.gas
        BY <2>1
      <3> QED  BY <1>1, <2>1, <3>1, <3>2, Leaving DEF Outcome
    <2>3. CASE ~(frame.gas >= cost)
      BY <1>1, <1>3, <2>1, <2>3, Failure DEF Errors, Return, Outcome
    <2> QED  BY <2>2, <2>3
  <1>4. ASSUME Break
        PROVE  Outcome /\ Running
    BY <1>1, <1>4, Failure DEF Errors, Break, Outcome
  <1> QED  BY <1>2, <1>3, <1>4 DEF Other, Code

\* SSTORE, which may fail after the host has stored, and TSTORE.
LEMMA StoreOutcome ==
    ASSUME TypeOK, Store
    PROVE  Outcome /\ Running
  <1>1. Mild(accounts)
    BY Unchanged
  <1>2. PICK key \in Keys, value \in Words : sstore(key, value) \/ tstore(key, value)
    BY DEF Store
  <1>3. CASE sstore(key, value)
    <2> DEFINE status == StorageStatus(frame.recipient, key, value)
               cost   == sstore_costs(status) + (IF rev >= BERLIN THEN ColdSloadCost ELSE 0)
               stored == set_storage(frame.recipient, key, value)
    <2>1. Running
      BY <1>3 DEF sstore
    <2>2. frame.gas \in Int /\ cost \in Nat
      BY <2>1, FrameFields, CostTypes DEF sstore_costs
    <2>3. ~frame.is_static => Mild(stored)
      BY <2>1, Storing
    <2> HIDE DEF cost, stored
    <2>4. \/ Fail("STATIC_MODE_VIOLATION", accounts)
          \/ Fail("OUT_OF_GAS", accounts)
          \/ /\ ~frame.is_static /\ frame.gas >= cost
             /\ Continue(frame.gas - cost, stored)
          \/ ~frame.is_static /\ Fail("OUT_OF_GAS", stored)
      BY <1>3 DEF sstore, cost, stored
    <2>5. CASE ~frame.is_static /\ frame.gas >= cost /\ Continue(frame.gas - cost, stored)
      <3>1. frame.gas - cost \in Nat /\ frame.gas - cost <= frame.gas
        BY <2>2, <2>5
      <3> QED  BY <2>1, <2>3, <2>5, <3>1, Continuing DEF Outcome
    <2> QED  BY <1>1, <2>1, <2>3, <2>4, <2>5, Failure DEF Errors, Outcome
  <1>4. CASE tstore(key, value)
    <2> DEFINE left == frame.gas - TstoreCost
               set  == set_transient_storage(frame.recipient, key, value)
    <2>1. Running
      BY <1>4 DEF tstore
    <2>2. left \in Int /\ left <= frame.gas
      BY <2>1, FrameFields, CostTypes
    <2>3. ~frame.is_static => Mild(set)
      BY <2>1, Storing
    <2> HIDE DEF left, set
    <2>4. \/ Fail("STATIC_MODE_VIOLATION", accounts)
          \/ Fail("OUT_OF_GAS", accounts)
          \/ left >= 0 /\ ~frame.is_static /\ Continue(left, set)
      BY <1>4 DEF tstore, left, set
    <2>5. CASE left >= 0 /\ ~frame.is_static /\ Continue(left, set)
      BY <2>1, <2>2, <2>3, <2>5, Continuing DEF Outcome
    <2> QED  BY <1>1, <2>1, <2>4, <2>5, Failure DEF Errors, Outcome
  <1> QED  BY <1>2, <1>3, <1>4

\* SELFDESTRUCT.
LEMMA DestructOutcome ==
    ASSUME TypeOK, NEW beneficiary \in Addresses, selfdestruct(beneficiary)
    PROVE  Outcome /\ Running
  <1> DEFINE entry == frame.gas - SelfdestructCost
             sends == rev = TANGERINE_WHISTLE \/ get_balance(frame.recipient) # 0
             left  == entry - (IF rev >= BERLIN THEN ColdBeneficiary ELSE 0)
                            - (IF /\ rev >= TANGERINE_WHISTLE /\ sends
                                  /\ ~account_exists(beneficiary)
                               THEN NewAccountCost ELSE 0)
  <1>1. Mild(accounts) /\ Running
    BY Unchanged DEF selfdestruct
  <1>2. left \in Int /\ left <= frame.gas
    <2> HIDE DEF sends
    <2> QED  BY <1>1, FrameFields, CostTypes
  <1> HIDE DEF left
  <1>3. \/ Fail("STATIC_MODE_VIOLATION", accounts)
        \/ Fail("OUT_OF_GAS", accounts)
        \/ left >= 0 /\ Leave("SUCCESS", left, NoCode, accounts)
    BY DEF selfdestruct, left
  <1>4. CASE left >= 0 /\ Leave("SUCCESS", left, NoCode, accounts)
    BY <1>1, <1>2, <1>4, Leaving DEF Outcome, Code
  <1> QED  BY <1>1, <1>3, <1>4, Failure DEF Errors, Outcome

\* The casts and the part of the gas that a message gets.
LEMMA GasCast ==
    ASSUME NEW w \in GasOperands
    PROVE  to_int64(w) \in Int /\ (Unsigned => to_int64(w) >= 0)
  <1>1. w \in Int /\ LimbMod \in Nat \ {0}
    BY WordAssumption
  <1>2. w % LimbMod \in Int
    BY <1>1
  <1> QED  BY <1>1, <1>2 DEF to_int64, Unsigned

\* The 64th part of the gas a caller keeps is not more than the gas.
LEMMA KeptPart ==
    ASSUME NEW left \in Nat
    PROVE  left \div GasDivisor \in Nat /\ left \div GasDivisor <= left
  BY CostAssumption

\* The gas of a message is not more than the caller has, and is not negative if the gas
\* asked for is not.
LEMMA MessagePart ==
    ASSUME TypeOK, Running, NEW left \in Nat, NEW wanted \in Int,
           rev >= TANGERINE_WHISTLE \/ wanted <= left
    PROVE  /\ MessageGas(wanted, left) \in Int
           /\ MessageGas(wanted, left) <= left
           /\ wanted >= 0 => MessageGas(wanted, left) >= 0
  BY KeptPart, FrameFields DEF MessageGas, Smaller

\* The code of an address.
LEMMA CodeAt ==
    ASSUME TypeOK, NEW a \in Addresses
    PROVE  /\ get_code(a) \in Code
           /\ get_code(a) # NoCode => a \in DOMAIN accounts /\ get_code(a) = accounts[a].code
  BY AccountFields DEF get_code, account_exists, Code, TypeOK, IsAccounts

\* The message of a call is a frame, if there is code to run.
LEMMA CallMessageType ==
    ASSUME TypeOK, Running, NEW op \in CallOps, NEW dst \in Addresses, NEW gas \in Int
    PROVE  LET msg == CallMessage(op, dst, gas)
           IN  /\ msg.code # NoCode => msg \in Frame
               /\ msg.gas = gas /\ msg.limit = gas /\ msg.code = get_code(dst)
               /\ msg.code_address = dst /\ msg.creates = FALSE
               /\ msg.sender \in Addresses
               /\ frame.is_static => msg.is_static
  <1>1. get_code(dst) \in Code
    BY CodeAt
  <1>2. SHANGHAI \in Revision
    BY DEF SHANGHAI, Revision, FRONTIER, PRAGUE
  <1>3. CallFlags(op) \in BOOLEAN /\ (frame.is_static => CallFlags(op))
    BY FrameFields DEF CallFlags
  <1> QED  BY <1>1, <1>2, <1>3, FrameFields DEF CallMessage, Frame, Code

\* The part of a call in the host.
LEMMA HandleCall ==
    ASSUME TypeOK, Running, NEW op \in CallOps, NEW dst \in Addresses,
           NEW gas \in Nat, NEW granted \in Int, granted <= gas,
           Unsigned => granted >= 0 /\ gas <= frame.gas,
           NEW value \in Nat, frame.is_static /\ op \in {"CALL", "STATICCALL"} => value = 0,
           ~TooDeep, handle_call(op, CallMessage(op, dst, granted), value, gas)
    PROVE  Outcome
  <1> DEFINE msg   == CallMessage(op, dst, granted)
             there == WithAccount(accounts, dst)
             moved == IF op \in {"CALL", "STATICCALL"}
                      THEN Transfer(there, msg.sender, dst, value)
                      ELSE there
  <1>1. /\ msg.code # NoCode => msg \in Frame
        /\ msg.gas = granted /\ msg.limit = granted /\ msg.code = get_code(dst)
        /\ msg.code_address = dst /\ msg.creates = FALSE
        /\ frame.is_static => msg.is_static
    BY CallMessageType
  <1>2. CASE ~account_exists(msg.sender)
    <2>1. Continue(gas - granted, accounts)
      BY <1>1, <1>2 DEF handle_call
    <2>2. gas - granted \in Nat /\ (Unsigned => gas - granted <= frame.gas)
      BY FrameFields
    <2> QED  BY <2>1, <2>2, Unchanged, Continuing DEF Outcome
  <1>3. CASE account_exists(msg.sender)
    <2>1. /\ Mild(there) /\ DOMAIN there = DOMAIN accounts \cup {dst}
          /\ \A a \in DOMAIN accounts : there[a] = accounts[a]
          /\ dst \notin DOMAIN accounts => there[dst].code = NoCode
      BY Adding, EmptyAccount
    <2>2. IsAccounts(there) /\ msg.sender \in DOMAIN there /\ dst \in DOMAIN there
      BY <1>3, <2>1 DEF Mild, account_exists
    <2> HIDE DEF there, msg
    <2>3. /\ IsAccounts(moved) /\ DOMAIN moved = DOMAIN there
          /\ \A a \in DOMAIN there : /\ moved[a].code = there[a].code
                                     /\ frame.is_static => moved[a] = there[a]
      <3> DEFINE from == msg.sender
                 sent == Transfer(there, from, dst, value)
      <3>1. from \in DOMAIN there
        BY <2>2
      <3> HIDE DEF from
      <3>2. Moved(there, sent, value)
        BY <2>2, <3>1, Transferring
      <3> HIDE DEF sent
      <3>3. moved = IF op \in {"CALL", "STATICCALL"} THEN sent ELSE there
        BY DEF sent, from
      <3> QED  BY <2>2, <3>2, <3>3 DEF Moved
    <2> HIDE DEF moved
    <2>4. Mild(moved)
      BY <2>1, <2>3 DEF Mild
    <2>5. \/ msg.code = NoCode /\ Continue(gas, moved)
          \/ msg.code # NoCode /\ Push(gas, moved, msg)
      BY <1>1, <1>3 DEF handle_call, moved, there, msg
    <2>6. CASE msg.code = NoCode /\ Continue(gas, moved)
      BY <2>4, <2>6, Continuing DEF Outcome
    <2>7. CASE msg.code # NoCode /\ Push(gas, moved, msg)
      <3>1. dst \in DOMAIN accounts /\ msg.code = accounts[dst].code
        BY <1>1, <2>7, CodeAt
      <3>2. Starts(msg, moved)
        BY <1>1, <2>1, <2>3, <2>7, <3>1 DEF Starts
      <3> QED  BY <1>1, <2>4, <2>7, <3>2 DEF CallsOut, Outcome
    <2> QED  BY <2>5, <2>6, <2>7
  <1> QED  BY <1>2, <1>3

\* CALL, CALLCODE, DELEGATECALL and STATICCALL.
LEMMA CallOutcome ==
    ASSUME TypeOK, Call
    PROVE  Outcome /\ Running
  <1>1. PICK op \in CallOps, dst \in Addresses, operand \in GasOperands,
             value \in CallValues \cup {0}, memory \in MemoryCosts :
             call_impl(op, dst, operand, value, memory)
    BY DEF Call
  <1> DEFINE entry   == frame.gas - CallEntry(memory)
             left    == entry - CallCharge(op, dst, value)
             wanted  == to_int64(operand)
             granted == MessageGas(wanted, left)
             stipend == IF value # 0 THEN Stipend ELSE 0
             barred  == op = "CALL" /\ value # 0 /\ frame.is_static
             paid    == /\ entry >= 0 /\ ~barred /\ left >= 0
                        /\ rev >= TANGERINE_WHISTLE \/ wanted <= left
  <1>2. Running /\ Mild(accounts)
    BY <1>1, Unchanged DEF call_impl
  <1>3. value \in Nat /\ memory \in Nat /\ stipend \in Nat
    BY WordAssumption, CostAssumption, CostTypes
  <1>4. CallEntry(memory) \in Nat
    BY <1>3, CostTypes DEF CallEntry
  <1>5. CallCharge(op, dst, value) \in Nat /\ CallCharge(op, dst, value) >= stipend
    BY <1>3, CostTypes DEF CallCharge
  <1>6. left \in Int /\ left + stipend <= frame.gas
    BY <1>2, <1>3, <1>4, <1>5, FrameFields
  <1>7. wanted \in Int /\ (Unsigned => wanted >= 0)
    BY GasCast
  <1> HIDE DEF entry, left, wanted, stipend
  <1>8. paid => granted \in Int /\ granted <= left /\ (Unsigned => granted >= 0)
    BY <1>2, <1>6, <1>7, MessagePart
  <1>9. /\ op \in {"STATICCALL", "DELEGATECALL"} => value = 0
        /\ \/ Fail("STATIC_MODE_VIOLATION", accounts)
           \/ Fail("OUT_OF_GAS", accounts)
           \/ paid /\ Continue(left + stipend, accounts)
           \/ /\ paid /\ ~LightFailure(op, dst, value)
              /\ handle_call(op, CallMessage(op, dst, granted + stipend), value,
                             left + stipend)
    BY <1>1 DEF call_impl, entry, left, wanted, stipend
  <1> HIDE DEF granted
  <1>10. CASE paid /\ Continue(left + stipend, accounts)
    BY <1>2, <1>3, <1>6, <1>10, Continuing DEF Outcome
  <1>11. CASE /\ paid /\ ~LightFailure(op, dst, value)
              /\ handle_call(op, CallMessage(op, dst, granted + stipend), value,
                             left + stipend)
    <2>1. /\ left + stipend \in Nat /\ granted + stipend \in Int
          /\ granted + stipend <= left + stipend
          /\ Unsigned => granted + stipend >= 0 /\ left + stipend <= frame.gas
      BY <1>3, <1>6, <1>8, <1>11
    <2>2. frame.is_static /\ op \in {"CALL", "STATICCALL"} => value = 0
      BY <1>9, <1>11
    <2>3. ~TooDeep
      BY <1>11 DEF LightFailure
    <2> QED  BY <1>2, <1>3, <1>11, <2>1, <2>2, <2>3, HandleCall
  <1> QED  BY <1>2, <1>9, <1>10, <1>11, Failure DEF Errors, Outcome

\* The address of a new contract is an address.
LEMMA NewAddress ==
    ASSUME NEW sender \in Addresses, NEW salt \in Salts \cup {0}, NEW code \in Code
    PROVE  calculate_address(sender, salt, code) \in Addresses
  <1> DEFINE n == 255 + salt + CodeHash[code] + sender
  <1>1. n \in Int
    BY WordAssumption DEF Code
  <1>2. n % WordMod \in 0..WordMod - 1
    BY <1>1, WordRange
  <1> HIDE DEF n
  <1>3. Rehash[n % WordMod] \in Addresses
    BY <1>2, WordAssumption
  <1> QED  BY <1>3 DEF calculate_address, n

\* CREATE and CREATE2.
LEMMA CreateOutcome ==
    ASSUME TypeOK, Create
    PROVE  Outcome /\ Running
  <1>1. PICK op \in {"CREATE", "CREATE2"}, endowment \in CallValues \cup {0},
             code \in Code, salt \in Salts \cup {0}, memory \in MemoryCosts :
             create_impl(op, endowment, code, salt, memory)
    BY DEF Create, Code
  <1> DEFINE words == CodeWords[code]
             entry == frame.gas - CreateCost
             left  == entry - memory - words * InitWordCost(op)
             gas   == IF rev >= TANGERINE_WHISTLE THEN left - left \div GasDivisor ELSE left
             new   == calculate_address(frame.recipient, salt, code)
             msg   == CreateMessage(new, code, gas)
             added == WithAccount(accounts, new)
  <1>2. Running /\ Mild(accounts)
    BY <1>1, Unchanged DEF create_impl
  <1>3. words * InitWordCost(op) \in Nat
    <2>1. words \in Nat /\ InitWordCost(op) \in {0, 2, 6, 8}
      BY WordAssumption DEF Code, InitWordCost
    <2> QED  BY <2>1
  <1>4. left \in Int /\ left <= frame.gas
    <2> DEFINE cost == words * InitWordCost(op)
    <2> HIDE DEF cost
    <2>1. cost \in Nat
      BY <1>3 DEF cost
    <2>2. frame.gas - CreateCost - memory - cost <= frame.gas
      BY <1>2, <2>1, FrameFields, CostTypes, CostAssumption
    <2>3. frame.gas - CreateCost - memory - cost \in Int
      BY <1>2, <2>1, FrameFields, CostTypes, CostAssumption
    <2> QED  BY <2>2, <2>3 DEF cost
  <1>5. new \in Addresses
    BY <1>2, FrameFields, NewAddress
  <1> HIDE DEF entry, left, new
  <1>6. left >= 0 => gas \in Nat /\ gas <= left
    BY <1>4, KeptPart
  <1>7. \/ Fail("STATIC_MODE_VIOLATION", accounts)
        \/ Fail("OUT_OF_GAS", accounts)
        \/ left >= 0 /\ Continue(left, accounts)
        \/ /\ left >= 0 /\ ~frame.is_static /\ ~TooDeep
           /\ handle_create(new, code, msg, left)
    BY <1>1 DEF create_impl, entry, left, new
  <1> HIDE DEF gas
  <1>8. CASE left >= 0 /\ Continue(left, accounts)
    BY <1>2, <1>4, <1>8, Continuing DEF Outcome
  <1>9. CASE /\ left >= 0 /\ ~frame.is_static /\ ~TooDeep
             /\ handle_create(new, code, msg, left)
    <2>1. /\ msg.gas = gas /\ msg.limit = gas /\ msg.creates = TRUE
          /\ msg.code_address = NoAddress /\ msg.recipient = new
          /\ msg.is_static = FALSE
      BY DEF CreateMessage
    <2>2. code # NoCode => msg \in Frame
      <3>1. SHANGHAI \in Revision
        BY DEF SHANGHAI, Revision, FRONTIER, PRAGUE
      <3>2. gas \in Int /\ frame.recipient \in Addresses
        BY <1>2, <1>6, <1>9, FrameFields
      <3> QED  BY <1>5, <3>1, <3>2 DEF CreateMessage, Frame, Code
    <2> HIDE DEF msg
    <2>3. /\ Mild(added) /\ new \in DOMAIN added
      BY <1>5, Adding
    <2>4. CASE account_exists(new)
      <3>1. Continue(left - gas, accounts) /\ left - gas \in Nat /\ left - gas <= frame.gas
        BY <1>2, <1>4, <1>6, <1>9, <2>1, <2>4, FrameFields DEF handle_create
      <3> QED  BY <1>2, <3>1, Continuing DEF Outcome
    <2>5. CASE ~account_exists(new) /\ code = NoCode
      <3>1. Continue(left, added)
        BY <1>9, <2>5 DEF handle_create
      <3> QED  BY <1>2, <1>4, <1>9, <2>3, <3>1, Continuing DEF Outcome
    <2>6. CASE ~account_exists(new) /\ code # NoCode
      <3>1. Push(left, added, msg)
        BY <1>9, <2>6 DEF handle_create
      <3>2. Starts(msg, added)
        BY <1>9, <2>1, <2>2, <2>3, <2>6 DEF Starts, account_exists
      <3>3. left \in Nat /\ msg.limit <= left /\ msg.limit >= 0
        BY <1>4, <1>6, <1>9, <2>1
      <3> QED  BY <1>2, <1>4, <1>9, <2>3, <3>1, <3>2, <3>3 DEF CallsOut, Outcome
    <2> QED  BY <1>2, <2>4, <2>5, <2>6
  <1> QED  BY <1>2, <1>7, <1>8, <1>9, Failure DEF Errors, Outcome

\* Every step starts the evaluation, is an instruction with one of the outcomes, or
\* changes nothing.
LEMMA Steps ==
    ASSUME TypeOK, [Next]_vars
    PROVE  Start \/ (Running /\ Outcome) \/ UNCHANGED vars
  BY CallOutcome, CreateOutcome, StoreOutcome, DestructOutcome, OtherOutcome
  DEF Next, Done

-----------------------------------------------------------------------------
(* What the outcomes make of the frames and of the accounts.               *)

\* Two frames that differ in nothing but their gas.
Alike(f, g) ==
    /\ f.recipient = g.recipient /\ f.is_static = g.is_static /\ f.limit = g.limit
    /\ f.code = g.code /\ f.code_address = g.code_address /\ f.creates = g.creates

\* Setting the gas of frame n.
LEMMA SetGas ==
    ASSUME NEW fs \in Seq(Frame), NEW n \in 1..Len(fs), NEW gas \in Int
    PROVE  /\ [fs EXCEPT ![n].gas = gas] \in Seq(Frame)
           /\ Len([fs EXCEPT ![n].gas = gas]) = Len(fs)
           /\ \A i \in 1..Len(fs) : Alike([fs EXCEPT ![n].gas = gas][i], fs[i])
           /\ \A i \in 1..Len(fs) : i # n => [fs EXCEPT ![n].gas = gas][i].gas = fs[i].gas
           /\ [fs EXCEPT ![n].gas = gas][n].gas = gas
  <1> DEFINE f == [fs[n] EXCEPT !.gas = gas]
             new == [fs EXCEPT ![n].gas = gas]
  <1>1. fs[n] \in Frame
    OBVIOUS
  <1>2. f \in Frame /\ Alike(f, fs[n]) /\ f.gas = gas
    BY <1>1 DEF Frame, Alike
  <1>3. new = [fs EXCEPT ![n] = f]
    OBVIOUS
  <1> HIDE DEF f
  <1>4. new \in Seq(Frame) /\ Len(new) = Len(fs)
    BY <1>2, <1>3
  <1>5. new[n] = f /\ \A i \in 1..Len(fs) : i # n => new[i] = fs[i]
    BY <1>3
  <1> QED  BY <1>2, <1>4, <1>5 DEF Alike

\* The frames after an instruction, up to the top frame or the one below it.
LEMMA FramesAfterGoing ==
    ASSUME TypeOK, Running, NEW gas \in Int, NEW accs, Continue(gas, accs)
    PROVE  /\ frames' \in Seq(Frame) /\ Len(frames') = Len(frames)
           /\ \A i \in 1..Len(frames) : Alike(frames'[i], frames[i])
           /\ \A i \in 1..Len(frames) : i # Len(frames) => frames'[i].gas = frames[i].gas
           /\ frames'[Len(frames)].gas = gas
  <1> DEFINE fs == [frames EXCEPT ![Len(frames)].gas = gas]
  <1>1. /\ fs \in Seq(Frame) /\ Len(fs) = Len(frames)
        /\ \A i \in 1..Len(frames) : Alike(fs[i], frames[i])
        /\ \A i \in 1..Len(frames) : i # Len(frames) => fs[i].gas = frames[i].gas
        /\ fs[Len(frames)].gas = gas
    BY SetGas, TopType DEF TypeOK
  <1> HIDE DEF fs
  <1>2. frames' = fs
    BY DEF Continue, fs
  <1> QED  BY <1>1, <1>2

\* A call pays at the caller and pushes the callee; the other frames are as they were.
LEMMA FramesAfterCalling ==
    ASSUME TypeOK, Running, NEW gas \in Int, NEW accs, NEW callee \in Frame,
           Push(gas, accs, callee)
    PROVE  /\ frames' \in Seq(Frame) /\ Len(frames') = Len(frames) + 1
           /\ \A i \in 1..Len(frames) : Alike(frames'[i], frames[i])
           /\ \A i \in 1..Len(frames) : i # Len(frames) => frames'[i].gas = frames[i].gas
           /\ frames'[Len(frames)].gas = gas
           /\ frames'[Len(frames) + 1] = callee
  <1> DEFINE fs == [frames EXCEPT ![Len(frames)].gas = gas]
  <1>1. /\ fs \in Seq(Frame) /\ Len(fs) = Len(frames)
        /\ \A i \in 1..Len(frames) : Alike(fs[i], frames[i])
        /\ \A i \in 1..Len(frames) : i # Len(frames) => fs[i].gas = frames[i].gas
        /\ fs[Len(frames)].gas = gas
    BY SetGas, TopType DEF TypeOK
  <1>2. frames' = Append(fs, callee)
    BY DEF Push
  <1>3. Len(frames) \in Nat \ {0}
    BY TopType
  <1> HIDE DEF fs
  <1>4. /\ frames' \in Seq(Frame) /\ Len(frames') = Len(frames) + 1
        /\ \A i \in 1..Len(frames) : frames'[i] = fs[i]
        /\ frames'[Len(frames) + 1] = callee
    BY <1>1, <1>2, <1>3
  <1> QED  BY <1>1, <1>3, <1>4

\* A frame that returns is gone, and its caller has the gas it left; the other frames
\* are as they were.
LEMMA FramesAfterLeaving ==
    ASSUME TypeOK, Running, NEW status, NEW gas, NEW output, NEW accs,
           GasLeft(status, gas) \in Nat, Leave(status, gas, output, accs)
    PROVE  LET n == Len(frames) - 1
           IN  \/ /\ n = 0 /\ frames' = << >>
                  /\ result' = [status |-> status, gas_left |-> GasLeft(status, gas)]
               \/ /\ n > 0 /\ frames' \in Seq(Frame) /\ Len(frames') = n
                  /\ UNCHANGED result
                  /\ \A i \in 1..n : Alike(frames'[i], frames[i])
                  /\ \A i \in 1..n : i # n => frames'[i].gas = frames[i].gas
                  /\ frames'[n].gas = frames[n].gas - (frame.limit - GasLeft(status, gas))
  <1> DEFINE n == Len(frames) - 1
             left  == GasLeft(status, gas)
             below == SubSeq(frames, 1, n)
             g     == frames[n].gas - (frame.limit - left)
  <1>1. n \in Nat /\ Len(frames) = n + 1
    BY TopType
  <1>2. depth = n
    BY DEF depth
  <1> HIDE DEF n
  <1>3. ASSUME n = 0
        PROVE  /\ frames' = << >>
               /\ result' = [status |-> status, gas_left |-> left]
    BY <1>2, <1>3 DEF Leave
  <1>4. ASSUME n > 0
        PROVE  /\ frames' \in Seq(Frame) /\ Len(frames') = n
               /\ UNCHANGED result
               /\ \A i \in 1..n : Alike(frames'[i], frames[i])
               /\ \A i \in 1..n : i # n => frames'[i].gas = frames[i].gas
               /\ frames'[n].gas = g
    <2>1. /\ below \in Seq(Frame) /\ Len(below) = n /\ n \in 1..Len(below)
          /\ \A i \in 1..n : below[i] = frames[i]
      BY <1>1, <1>4 DEF TypeOK
    <2>2. frames[n] \in Frame /\ frame \in Frame
      BY <1>1, <1>4, TopType DEF TypeOK
    <2>3. g \in Int
      BY <2>2 DEF Frame
    <2>4. UNCHANGED result /\ frames' = [below EXCEPT ![n].gas = g]
      BY <1>2, <1>1, <1>4, <2>1 DEF Leave
    <2> HIDE DEF below, g
    <2>5. /\ frames' \in Seq(Frame) /\ Len(frames') = n
          /\ \A i \in 1..n : Alike(frames'[i], below[i])
          /\ \A i \in 1..n : i # n => frames'[i].gas = below[i].gas
          /\ frames'[n].gas = g
      BY <2>1, <2>3, <2>4, SetGas
    <2> QED  BY <2>1, <2>4, <2>5
  <1>5. n = 0 \/ n > 0
    BY <1>1
  <1> QED  BY <1>3, <1>4, <1>5 DEF n

\* The accounts after a frame left: the code of a contract it created may be set.
LEMMA AccountsAfterLeaving ==
    ASSUME TypeOK, Running, NEW status, NEW gas, NEW output \in Code, NEW accs,
           Mild(accs), Leave(status, gas, output, accs)
    PROVE  /\ IsAccounts(accounts') /\ DOMAIN accounts' = DOMAIN accs
           /\ \A a \in DOMAIN accs :
                 a # frame.recipient \/ ~frame.creates => accounts'[a] = accs[a]
  <1> DEFINE a == frame.recipient
             set == [accs EXCEPT ![a].code = output]
  <1>1. accounts' = IF frame.creates /\ status = "SUCCESS" THEN set ELSE accs
    BY DEF Leave
  <1>2. IsAccounts(accs)
    BY DEF Mild
  <1>3. /\ DOMAIN set = DOMAIN accs
        /\ \A b \in DOMAIN accs : b # a => set[b] = accs[b]
    OBVIOUS
  <1>4. a \in DOMAIN accs => set[a] \in Account
    <2> SUFFICES ASSUME a \in DOMAIN accs PROVE set[a] \in Account
      OBVIOUS
    <2>1. accs[a] \in Account /\ set[a] = [accs[a] EXCEPT !.code = output]
      BY <1>2 DEF IsAccounts
    <2> QED  BY <2>1 DEF Account, Code
  <1>5. IsAccounts(set)
    BY <1>2, <1>3, <1>4 DEF IsAccounts
  <1> QED  BY <1>1, <1>2, <1>3, <1>5

-----------------------------------------------------------------------------
(* Types and depth.                                                        *)

\* Frames, accounts and results keep their types, and no step nests calls deeper than
\* the limit.
LEMMA NextTypeOK ==
    ASSUME TypeOK, [Next]_vars
    PROVE  TypeOK'
  <1>1. Len(frames) \in Nat /\ CallDepthLimit \in Nat
    BY DepthAssumption DEF TypeOK
  <1>2. CASE Start
    <2>1. PICK m \in Messages :
             \/ /\ frames' = <<[recipient |-> m.recipient, sender |-> m.sender,
                                is_static |-> m.is_static, gas |-> m.gas, limit |-> m.gas,
                                rev |-> m.rev, code |-> m.code, code_address |-> NoAddress,
                                creates |-> FALSE]>>
                /\ UNCHANGED result
             \/ /\ result' = [status |-> "FAILURE", gas_left |-> m.gas]
                /\ UNCHANGED frames
      BY <1>2 DEF Start
    <2> DEFINE f == [recipient |-> m.recipient, sender |-> m.sender,
                     is_static |-> m.is_static, gas |-> m.gas, limit |-> m.gas,
                     rev |-> m.rev, code |-> m.code, code_address |-> NoAddress,
                     creates |-> FALSE]
    <2>2. f \in Frame /\ m.gas \in Nat
      BY AccountAssumption DEF Frame
    <2>3. IsAccounts(accounts')
      BY <1>2 DEF Start, TypeOK, IsAccounts
    <2> HIDE DEF f
    <2>4. <<f>> \in Seq(Frame) /\ Len(<<f>>) = 1
      BY <2>2
    <2>5. CASE frames' = <<f>> /\ UNCHANGED result
      BY <1>1, <2>3, <2>4, <2>5 DEF TypeOK
    <2>6. CASE result' = [status |-> "FAILURE", gas_left |-> m.gas] /\ UNCHANGED frames
      BY <2>2, <2>3, <2>6 DEF TypeOK
    <2> QED  BY <2>1, <2>5, <2>6 DEF f
  <1>3. CASE Running /\ GoesOn
    <2>1. PICK gas \in Nat : \E accs : Continue(gas, accs) /\ Mild(accs)
      BY <1>3 DEF GoesOn
    <2>2. PICK accs : Continue(gas, accs) /\ Mild(accs)
      BY <2>1
    <2>3. frames' \in Seq(Frame) /\ Len(frames') = Len(frames)
      BY <1>3, <2>2, FramesAfterGoing
    <2>4. accounts' = accs /\ result' = result
      BY <2>2 DEF Continue
    <2> QED  BY <2>2, <2>3, <2>4 DEF TypeOK, Mild
  <1>4. CASE Running /\ CallsOut
    <2>1. PICK gas \in Nat : \E accs, callee :
              /\ Push(gas, accs, callee) /\ Mild(accs) /\ Starts(callee, accs) /\ ~TooDeep
      BY <1>4 DEF CallsOut
    <2>2. PICK accs, callee :
              /\ Push(gas, accs, callee) /\ Mild(accs) /\ Starts(callee, accs) /\ ~TooDeep
      BY <2>1
    <2>3. frames' \in Seq(Frame) /\ Len(frames') = Len(frames) + 1
      BY <1>4, <2>2, FramesAfterCalling DEF Starts
    <2>4. accounts' = accs /\ result' = result
      BY <2>2 DEF Push
    <2>5. Len(frames') <= CallDepthLimit + 1
      BY <1>1, <2>2, <2>3 DEF TooDeep, depth
    <2> QED  BY <2>2, <2>3, <2>4, <2>5 DEF TypeOK, Mild
  <1>5. CASE Running /\ Leaves
    <2>1. PICK status \in Errors \cup {"SUCCESS", "REVERT"}, gas \in Nat, output \in Code :
              \E accs : /\ Leave(status, gas, output, accs) /\ Mild(accs)
                        /\ GasLeft(status, gas) \in Nat
      BY <1>5 DEF Leaves
    <2>2. PICK accs : Leave(status, gas, output, accs) /\ Mild(accs)
      BY <2>1
    <2>3. IsAccounts(accounts')
      BY <1>5, <2>2, AccountsAfterLeaving
    <2>4. \/ /\ frames' = << >>
             /\ result' = [status |-> status, gas_left |-> GasLeft(status, gas)]
          \/ /\ frames' \in Seq(Frame) /\ Len(frames') = Len(frames) - 1
             /\ UNCHANGED result
      BY <1>5, <2>1, <2>2, FramesAfterLeaving
    <2>5. << >> \in Seq(Frame) /\ Len(<< >>) = 0
      OBVIOUS
    <2>6. result'.gas_left \in Nat
      BY <2>1, <2>4 DEF TypeOK
    <2>7. frames' \in Seq(Frame) /\ Len(frames') <= CallDepthLimit + 1
      <3>1. CASE frames' = << >>
        BY <1>1, <2>5, <3>1
      <3>2. CASE frames' \in Seq(Frame) /\ Len(frames') = Len(frames) - 1
        <4>1. Len(frames) <= CallDepthLimit + 1
          BY DEF TypeOK
        <4> QED  BY <1>1, <3>2, <4>1
      <3> QED  BY <2>4, <3>1, <3>2
    <2> QED  BY <2>3, <2>6, <2>7 DEF TypeOK
  <1>6. CASE UNCHANGED vars
    BY <1>6 DEF vars, TypeOK, IsAccounts
  <1> QED  BY <1>2, <1>3, <1>4, <1>5, <1>6, Steps DEF Outcome

\* The types of CallFrames, and the bound on the depth of nested calls: call_impl and
\* create_impl never start a frame below one that is CallDepthLimit deep.
THEOREM TypeCorrect == Spec => []TypeOK
  <1>1. Init => TypeOK
    <2>1. ASSUME Init PROVE frames \in Seq(Frame) /\ Len(frames) = 0
      BY <2>1 DEF Init
    <2> QED  BY <2>1, AccountAssumption, DepthAssumption DEF Init, TypeOK, NoResult
  <1>2. TypeOK /\ [Next]_vars => TypeOK'
    BY NextTypeOK
  <1> QED  BY <1>1, <1>2, PTL DEF Spec

-----------------------------------------------------------------------------
(* Static frames.                                                          *)

\* Once a frame is static all frames above it are, and no static frame creates.
StaticInv ==
    /\ \A i, j \in 1..Len(frames) : i <= j /\ frames[i].is_static => frames[j].is_static
    /\ \A i \in 1..Len(frames) : frames[i].creates => ~frames[i].is_static

\* Every step keeps the frames above a static one static.
LEMMA NextStaticInv ==
    ASSUME TypeOK, StaticInv, [Next]_vars
    PROVE  StaticInv'
  <1>1. Len(frames) \in Nat
    BY DEF TypeOK
  <1>2. CASE Start
    <2>1. Len(frames') = 0 \/ (Len(frames') = 1 /\ ~frames'[1].creates)
      BY <1>2 DEF Start
    <2> QED  BY <2>1 DEF StaticInv
  <1>3. CASE Running /\ GoesOn
    <2>1. PICK gas \in Nat : \E accs : Continue(gas, accs)
      BY <1>3 DEF GoesOn
    <2>2. Len(frames') = Len(frames) /\ \A i \in 1..Len(frames) : Alike(frames'[i], frames[i])
      BY <1>3, <2>1, FramesAfterGoing
    <2> QED  BY <2>2 DEF StaticInv, Alike
  <1>4. CASE Running /\ CallsOut
    <2>1. PICK gas \in Nat : \E accs, callee : Push(gas, accs, callee) /\ Starts(callee, accs)
      BY <1>4 DEF CallsOut
    <2>2. PICK accs, callee : Push(gas, accs, callee) /\ Starts(callee, accs)
      BY <2>1
    <2>3. /\ Len(frames') = Len(frames) + 1
          /\ \A i \in 1..Len(frames) : Alike(frames'[i], frames[i])
          /\ frames'[Len(frames) + 1] = callee
      BY <1>4, <2>2, FramesAfterCalling DEF Starts
    <2>4. /\ frame.is_static => callee.is_static
          /\ callee.creates => ~callee.is_static
      BY <2>2 DEF Starts
    <2>5. \A i \in 1..Len(frames) : frames[i].is_static => frame.is_static
      BY <1>1, <1>4 DEF StaticInv, Running, frame
    <2> QED  BY <1>1, <2>3, <2>4, <2>5 DEF StaticInv, Alike
  <1>5. CASE Running /\ Leaves
    <2>1. \E status, gas, output, accs :
              Leave(status, gas, output, accs) /\ GasLeft(status, gas) \in Nat
      BY <1>5 DEF Leaves
    <2>2. \/ frames' = << >>
          \/ /\ Len(frames') = Len(frames) - 1
             /\ \A i \in 1..Len(frames) - 1 : Alike(frames'[i], frames[i])
      BY <1>5, <2>1, FramesAfterLeaving
    <2>3. CASE frames' = << >>
      BY <2>3 DEF StaticInv
    <2>4. CASE /\ Len(frames') = Len(frames) - 1
               /\ \A i \in 1..Len(frames) - 1 : Alike(frames'[i], frames[i])
      BY <1>1, <2>4 DEF StaticInv, Alike
    <2> QED  BY <2>2, <2>3, <2>4
  <1>6. CASE UNCHANGED vars
    BY <1>6 DEF vars, StaticInv
  <1> QED  BY <1>2, <1>3, <1>4, <1>5, <1>6, Steps DEF Outcome

\* What a step does to the accounts while a frame is static.
StaticStep ==
    (\E i \in 1..Len(frames) : frames[i].is_static) =>
        \A a \in DOMAIN accounts : a \in DOMAIN accounts' /\ accounts'[a] = accounts[a]

\* While a frame is static a step adds accounts at most.
LEMMA NextStatic ==
    ASSUME TypeOK, StaticInv, [Next]_vars
    PROVE  StaticStep
  <1> SUFFICES ASSUME NEW i \in 1..Len(frames), frames[i].is_static,
                      NEW a \in DOMAIN accounts
               PROVE  a \in DOMAIN accounts' /\ accounts'[a] = accounts[a]
    BY DEF StaticStep
  <1>1. Running /\ frame.is_static /\ ~frame.creates
    BY DEF TypeOK, StaticInv, Running, frame
  <1>2. CASE Start
    BY <1>2 DEF Start
  <1>3. CASE GoesOn
    BY <1>1, <1>3 DEF GoesOn, Continue, Mild
  <1>4. CASE CallsOut
    BY <1>1, <1>4 DEF CallsOut, Push, Mild
  <1>5. CASE Leaves
    <2>1. PICK output \in Code : \E status, gas, accs :
              Leave(status, gas, output, accs) /\ Mild(accs)
      BY <1>5 DEF Leaves
    <2>2. PICK status, gas, accs : Leave(status, gas, output, accs) /\ Mild(accs)
      BY <2>1
    <2>3. /\ DOMAIN accounts' = DOMAIN accs
          /\ \A b \in DOMAIN accs : accounts'[b] = accs[b]
      BY <1>1, <2>2, AccountsAfterLeaving
    <2> QED  BY <1>1, <2>2, <2>3 DEF Mild
  <1>6. CASE UNCHANGED vars
    BY <1>6 DEF vars
  <1> QED  BY <1>2, <1>3, <1>4, <1>5, <1>6, Steps DEF Outcome

\* From the moment a frame is static until it leaves, the accounts that are there keep
\* balance, code and storage, in that frame and in all it calls (the flags of call_impl
\* and the static checks of the handlers).
THEOREM StaticSafe == Spec => StaticKeepsAccounts
  <1>1. Init => StaticInv
    BY DEF Init, StaticInv
  <1>2. TypeOK /\ StaticInv /\ [Next]_vars => StaticInv'
    BY NextStaticInv
  <1>3. TypeOK /\ StaticInv /\ [Next]_vars => [StaticStep]_vars
    BY NextStatic
  <1>4. StaticKeepsAccounts <=> [][StaticStep]_vars
    BY PTL DEF StaticKeepsAccounts, StaticStep
  <1> QED  BY <1>1, <1>2, <1>3, <1>4, TypeCorrect, PTL DEF Spec

-----------------------------------------------------------------------------
(* Running code.                                                           *)

\* An account whose init code runs has no code yet, so that no frame runs code of it,
\* and no two frames create the same account: the code that is set when one of them
\* leaves is nobody's.
CodesSafe(fs, n, accs) ==
    /\ \A i \in 1..n : fs[i].code_address # NoAddress =>
          /\ fs[i].code_address \in DOMAIN accs
          /\ accs[fs[i].code_address].code = fs[i].code
    /\ \A i \in 1..n : fs[i].creates =>
          /\ fs[i].code_address = NoAddress
          /\ fs[i].recipient \in DOMAIN accs
          /\ accs[fs[i].recipient].code = NoCode
    /\ \A i, j \in 1..n : i # j /\ fs[i].creates /\ fs[j].creates =>
          fs[i].recipient # fs[j].recipient

CodeInv == CodesSafe(frames, Len(frames), accounts)

\* The address whose code frame f depends on.
DependsOn(f, a) == f.code_address = a \/ (f.creates /\ f.recipient = a)

\* The first n frames keep their codes if the accounts they depend on do.
LEMMA CodeKept ==
    ASSUME CodeInv, NEW n \in Nat, NEW fs, NEW accs,
           \A i \in 1..n : i \in 1..Len(frames) /\ Alike(fs[i], frames[i]),
           \A i \in 1..n : \A a \in DOMAIN accounts : DependsOn(frames[i], a) =>
               a \in DOMAIN accs /\ accs[a].code = accounts[a].code
    PROVE  CodesSafe(fs, n, accs)
  <1>1. ASSUME NEW i \in 1..n, fs[i].code_address # NoAddress
        PROVE  /\ fs[i].code_address \in DOMAIN accs
               /\ accs[fs[i].code_address].code = fs[i].code
    BY <1>1 DEF CodeInv, CodesSafe, Alike, DependsOn
  <1>2. ASSUME NEW i \in 1..n, fs[i].creates
        PROVE  /\ fs[i].code_address = NoAddress
               /\ fs[i].recipient \in DOMAIN accs
               /\ accs[fs[i].recipient].code = NoCode
    BY <1>2 DEF CodeInv, CodesSafe, Alike, DependsOn
  <1>3. ASSUME NEW i \in 1..n, NEW j \in 1..n, i # j, fs[i].creates, fs[j].creates
        PROVE  fs[i].recipient # fs[j].recipient
    BY <1>3 DEF CodeInv, CodesSafe, Alike
  <1> QED  BY <1>1, <1>2, <1>3 DEF CodesSafe

\* All frames stay as they are, but for their gas.
LEMMA CodeKeptByAll ==
    ASSUME TypeOK, CodeInv, NEW fs, NEW accs, Mild(accs),
           \A i \in 1..Len(frames) : Alike(fs[i], frames[i])
    PROVE  CodesSafe(fs, Len(frames), accs)
  <1>1. Len(frames) \in Nat
    BY DEF TypeOK
  <1>2. \A a \in DOMAIN accounts : a \in DOMAIN accs /\ accs[a].code = accounts[a].code
    BY DEF Mild
  <1> QED  BY <1>1, <1>2, CodeKept

\* Every step keeps the code of an account what the frames on it run.
LEMMA NextCodeInv ==
    ASSUME TypeOK, CodeInv, [Next]_vars
    PROVE  CodeInv'
  <1>1. Len(frames) \in Nat /\ \A i \in 1..Len(frames) : frames[i] \in Frame
    BY DEF TypeOK
  <1>2. CASE Start
    <2>1. \/ Len(frames') = 0
          \/ Len(frames') = 1 /\ ~frames'[1].creates /\ frames'[1].code_address = NoAddress
      BY <1>2 DEF Start
    <2> QED  BY <2>1 DEF CodeInv, CodesSafe
  <1>3. CASE Running /\ GoesOn
    <2>1. PICK gas \in Nat : \E accs : Continue(gas, accs) /\ Mild(accs)
      BY <1>3 DEF GoesOn
    <2>2. PICK accs : Continue(gas, accs) /\ Mild(accs)
      BY <2>1
    <2>3. Len(frames') = Len(frames) /\ \A i \in 1..Len(frames) : Alike(frames'[i], frames[i])
      BY <1>3, <2>2, FramesAfterGoing
    <2>4. accounts' = accs
      BY <2>2 DEF Continue
    <2>5. CodesSafe(frames', Len(frames), accs)
      BY <2>2, <2>3, CodeKeptByAll
    <2> QED  BY <2>3, <2>4, <2>5 DEF CodeInv
  <1>4. CASE Running /\ CallsOut
    <2>1. PICK gas \in Nat : \E accs, callee :
              Push(gas, accs, callee) /\ Mild(accs) /\ Starts(callee, accs)
      BY <1>4 DEF CallsOut
    <2>2. PICK accs, callee : Push(gas, accs, callee) /\ Mild(accs) /\ Starts(callee, accs)
      BY <2>1
    <2>3. /\ Len(frames') = Len(frames) + 1
          /\ \A i \in 1..Len(frames) : Alike(frames'[i], frames[i])
          /\ frames'[Len(frames) + 1] = callee
      BY <1>4, <2>2, FramesAfterCalling DEF Starts
    <2>4. /\ accounts' = accs
          /\ \A a \in DOMAIN accounts :
                a \in DOMAIN accounts' /\ accounts'[a].code = accounts[a].code
          /\ \A a \in DOMAIN accounts' \ DOMAIN accounts : accounts'[a].code = NoCode
      BY <2>2 DEF Push, Mild
    <2>5. /\ callee.code_address # NoAddress =>
                /\ callee.code_address \in DOMAIN accounts'
                /\ accounts'[callee.code_address].code = callee.code
          /\ callee.creates =>
                /\ callee.code_address = NoAddress
                /\ callee.recipient \in DOMAIN accounts' \ DOMAIN accounts
      BY <2>2, <2>4 DEF Starts
    <2>6. \A i \in 1..Len(frames) : frames'[i].creates => frames'[i].recipient \in DOMAIN accounts
      BY <2>3 DEF CodeInv, CodesSafe, Alike
    <2> DEFINE fs == frames'
               new == accounts'
               n == Len(frames)
    <2>7. CodesSafe(fs, n, new)
      BY <2>2, <2>3, <2>4, CodeKeptByAll
    <2> HIDE DEF n
    <2>8. \A i \in 1..n + 1 : i \in 1..n \/ i = n + 1
      BY <1>1 DEF n
    <2>9. ASSUME NEW i \in 1..n + 1, fs[i].code_address # NoAddress
          PROVE  fs[i].code_address \in DOMAIN new /\ new[fs[i].code_address].code = fs[i].code
      BY <2>3, <2>5, <2>7, <2>8, <2>9 DEF n, CodesSafe
    <2>10. ASSUME NEW i \in 1..n + 1, fs[i].creates
           PROVE  /\ fs[i].code_address = NoAddress /\ fs[i].recipient \in DOMAIN new
                  /\ new[fs[i].recipient].code = NoCode
      BY <2>3, <2>4, <2>5, <2>7, <2>8, <2>10 DEF n, CodesSafe
    <2>11. ASSUME NEW i \in 1..n + 1, NEW j \in 1..n + 1, i # j, fs[i].creates, fs[j].creates
           PROVE  fs[i].recipient # fs[j].recipient
      BY <2>3, <2>5, <2>6, <2>7, <2>8, <2>11 DEF n, CodesSafe
    <2> QED  BY <2>3, <2>9, <2>10, <2>11 DEF n, CodeInv, CodesSafe
  <1>5. CASE Running /\ Leaves
    <2>1. PICK output \in Code : \E status, gas, accs :
              /\ Leave(status, gas, output, accs) /\ Mild(accs)
              /\ GasLeft(status, gas) \in Nat
      BY <1>5 DEF Leaves
    <2>2. PICK status, gas, accs : /\ Leave(status, gas, output, accs) /\ Mild(accs)
                                   /\ GasLeft(status, gas) \in Nat
      BY <2>1
    <2>3. \/ frames' = << >>
          \/ /\ Len(frames') = Len(frames) - 1
             /\ \A i \in 1..Len(frames) - 1 : Alike(frames'[i], frames[i])
      BY <1>5, <2>2, FramesAfterLeaving
    <2>4. \A a \in DOMAIN accounts : a # frame.recipient \/ ~frame.creates =>
              a \in DOMAIN accounts' /\ accounts'[a].code = accounts[a].code
      BY <1>5, <2>2, AccountsAfterLeaving DEF Mild
    <2>5. PICK n \in Nat : Len(frames) = n + 1
      <3>1. Len(frames) - 1 \in Nat /\ Len(frames) = (Len(frames) - 1) + 1
        BY <1>1, <1>5 DEF Running
      <3> QED  BY <3>1
    <2>6. /\ frame = frames[n + 1] /\ n + 1 \in 1..Len(frames) /\ Len(frames) - 1 = n
          /\ \A i \in 1..n : i \in 1..Len(frames) /\ i # n + 1
      BY <2>5 DEF frame
    <2>7. ASSUME NEW i \in 1..n, NEW a \in DOMAIN accounts, DependsOn(frames[i], a)
          PROVE  a \in DOMAIN accounts' /\ accounts'[a].code = accounts[a].code
      <3>1. a \in Addresses /\ a # NoAddress
        BY WordAssumption DEF TypeOK, IsAccounts, NoAddress
      <3>2. frames[i].code \in Codes /\ NoCode \notin Codes
        BY <1>1, <2>6, WordAssumption DEF Frame
      <3>3. frame.creates => frame.recipient # a
        BY <2>6, <2>7, <3>1, <3>2 DEF CodeInv, CodesSafe, DependsOn
      <3> QED  BY <2>4, <3>3
    <2>8. CASE frames' = << >>
      BY <2>8 DEF CodeInv, CodesSafe
    <2>9. CASE Len(frames') = n /\ \A i \in 1..n : Alike(frames'[i], frames[i])
      <3>1. \A i \in 1..n : i \in 1..Len(frames) /\ Alike(frames'[i], frames[i])
        BY <2>6, <2>9
      <3>2. CodesSafe(frames', n, accounts')
        BY <2>7, <3>1, CodeKept
      <3> QED  BY <2>9, <3>2 DEF CodeInv
    <2> QED  BY <2>3, <2>6, <2>8, <2>9
  <1>6. CASE UNCHANGED vars
    BY <1>6 DEF vars, CodeInv, CodesSafe
  <1> QED  BY <1>2, <1>3, <1>4, <1>5, <1>6, Steps DEF Outcome

\* The code that handle_call gave a frame a pointer to stays in its account until the
\* frame leaves, whatever contracts are created meanwhile.
THEOREM RunningCodeSafe == Spec => []RunningCodeKept
  <1>1. Init => CodeInv
    BY DEF Init, CodeInv, CodesSafe
  <1>2. TypeOK /\ CodeInv /\ [Next]_vars => CodeInv'
    BY NextCodeInv
  <1>3. CodeInv => RunningCodeKept
    BY DEF CodeInv, CodesSafe, RunningCodeKept, get_code, account_exists
  <1> QED  BY <1>1, <1>2, <1>3, TypeCorrect, PTL DEF Spec

-----------------------------------------------------------------------------
(* Gas.                                                                    *)

\* Every frame holds at most what its message brought, and the message that it waits
\* for has been given no more than it holds.
GasSafe(fs, n) ==
    /\ \A i \in 1..n : fs[i].gas >= 0 /\ fs[i].gas <= fs[i].limit
    /\ \A i, j \in 1..n : j = i + 1 => fs[j].limit <= fs[i].gas

GasInv == GasSafe(frames, Len(frames))

\* The gas of a frame and its limit are numbers.
LEMMA GasNumbers ==
    ASSUME TypeOK
    PROVE  /\ Len(frames) \in Nat
           /\ \A i \in 1..Len(frames) : frames[i].gas \in Int /\ frames[i].limit \in Int
  <1>1. Len(frames) \in Nat /\ \A i \in 1..Len(frames) : frames[i] \in Frame
    BY DEF TypeOK
  <1> QED  BY <1>1 DEF Frame

\* The first n frames are as before, but the last of them holds less gas.
LEMMA GasKept ==
    ASSUME TypeOK, GasInv, NEW n \in 1..Len(frames), NEW fs,
           \A i \in 1..n : Alike(fs[i], frames[i]),
           \A i \in 1..n : i # n => fs[i].gas = frames[i].gas,
           fs[n].gas \in Nat, fs[n].gas <= frames[n].gas
    PROVE  GasSafe(fs, n)
  <1>1. \A i \in 1..n : i \in 1..Len(frames) /\ fs[i].limit = frames[i].limit
    BY GasNumbers DEF Alike
  <1>2. ASSUME NEW i \in 1..n
        PROVE  fs[i].gas >= 0 /\ fs[i].gas <= fs[i].limit
    BY <1>1, GasNumbers DEF GasInv, GasSafe
  <1>3. ASSUME NEW i \in 1..n, NEW j \in 1..n, j = i + 1
        PROVE  fs[j].limit <= fs[i].gas
    <2>1. i # n
      BY <1>3, GasNumbers
    <2> QED  BY <1>1, <1>3, <2>1 DEF GasInv, GasSafe
  <1> QED  BY <1>2, <1>3 DEF GasSafe

\* Every step keeps the gas of a frame within its limit and the limit of a callee within
\* the gas its caller had.
LEMMA NextGasInv ==
    ASSUME Unsigned, TypeOK, GasInv, [Next]_vars
    PROVE  GasInv'
  <1>1. CASE Start
    <2>1. \/ Len(frames') = 0
          \/ Len(frames') = 1 /\ frames'[1].gas >= 0 /\ frames'[1].gas <= frames'[1].limit
      BY <1>1, AccountAssumption DEF Start
    <2> QED  BY <2>1 DEF GasInv, GasSafe
  <1>2. Running => Len(frames) \in 1..Len(frames) /\ frame = frames[Len(frames)]
    BY GasNumbers DEF Running, frame
  <1>3. CASE Running /\ GoesOn
    <2>1. PICK gas \in Nat : \E accs : Continue(gas, accs) /\ gas <= frame.gas
      BY <1>3 DEF GoesOn
    <2>2. /\ Len(frames') = Len(frames)
          /\ \A i \in 1..Len(frames) : Alike(frames'[i], frames[i])
          /\ \A i \in 1..Len(frames) : i # Len(frames) => frames'[i].gas = frames[i].gas
          /\ frames'[Len(frames)].gas = gas
      BY <1>3, <2>1, FramesAfterGoing
    <2>3. GasSafe(frames', Len(frames))
      BY <1>2, <1>3, <2>1, <2>2, GasKept
    <2> QED  BY <2>2, <2>3 DEF GasInv
  <1>4. CASE Running /\ CallsOut
    <2>1. PICK gas \in Nat : \E accs, callee :
              /\ Push(gas, accs, callee) /\ callee \in Frame /\ callee.gas = callee.limit
              /\ callee.limit <= gas /\ callee.limit >= 0 /\ gas <= frame.gas
      BY <1>4 DEF CallsOut, Starts
    <2>2. PICK accs, callee :
              /\ Push(gas, accs, callee) /\ callee \in Frame /\ callee.gas = callee.limit
              /\ callee.limit <= gas /\ callee.limit >= 0 /\ gas <= frame.gas
      BY <2>1
    <2> DEFINE n == Len(frames)
    <2>3. /\ Len(frames') = n + 1
          /\ \A i \in 1..n : Alike(frames'[i], frames[i])
          /\ \A i \in 1..n : i # n => frames'[i].gas = frames[i].gas
          /\ frames'[n].gas = gas
          /\ frames'[n + 1] = callee
      BY <1>4, <2>2, FramesAfterCalling
    <2>4. GasSafe(frames', n)
      BY <1>2, <1>4, <2>2, <2>3, GasKept
    <2>5. callee.gas \in Int /\ n \in Nat
      BY <2>2, GasNumbers DEF Frame
    <2> HIDE DEF n
    <2>6. ASSUME NEW i \in 1..n + 1
          PROVE  frames'[i].gas >= 0 /\ frames'[i].gas <= frames'[i].limit
      BY <2>2, <2>3, <2>4, <2>5 DEF GasSafe
    <2>7. ASSUME NEW i \in 1..n + 1, NEW j \in 1..n + 1, j = i + 1
          PROVE  frames'[j].limit <= frames'[i].gas
      <3>1. CASE i = n
        BY <2>2, <2>3, <2>7, <3>1
      <3>2. CASE i # n
        <4>1. i \in 1..n /\ j \in 1..n
          BY <2>5, <2>7, <3>2
        <4> QED  BY <2>4, <2>7, <4>1 DEF GasSafe
      <3> QED  BY <3>1, <3>2
    <2>8. GasSafe(frames', n + 1)
      BY <2>6, <2>7 DEF GasSafe
    <2> QED  BY <2>3, <2>8 DEF GasInv
  <1>5. CASE Running /\ Leaves
    <2>1. PICK left \in Nat : \E status, gas, output, accs :
              /\ Leave(status, gas, output, accs) /\ left = GasLeft(status, gas)
              /\ left = 0 \/ left <= frame.gas
      BY <1>5 DEF Leaves
    <2>2. \/ Len(frames) - 1 = 0 /\ frames' = << >>
          \/ /\ Len(frames) - 1 > 0
             /\ Len(frames') = Len(frames) - 1
             /\ \A i \in 1..Len(frames) - 1 : Alike(frames'[i], frames[i])
             /\ \A i \in 1..Len(frames) - 1 :
                   i # Len(frames) - 1 => frames'[i].gas = frames[i].gas
             /\ frames'[Len(frames) - 1].gas =
                   frames[Len(frames) - 1].gas - (frame.limit - left)
      BY <1>5, <2>1, FramesAfterLeaving
    <2>3. CASE frames' = << >>
      BY <2>3 DEF GasInv, GasSafe
    <2>4. CASE Len(frames) - 1 > 0
      <3>1. PICK n \in 1..Len(frames) : Len(frames) = n + 1 /\ Len(frames) - 1 = n
        <4>1. /\ Len(frames) - 1 \in 1..Len(frames)
              /\ Len(frames) = (Len(frames) - 1) + 1
          BY <2>4, GasNumbers
        <4> QED  BY <4>1
      <3>2. /\ n + 1 \in 1..Len(frames) /\ frame = frames[n + 1]
            /\ frame.gas \in Int /\ frame.limit \in Int /\ frames[n].gas \in Int
        BY <1>2, <1>5, <3>1, GasNumbers
      <3>3. frame.gas <= frame.limit /\ 0 <= frame.gas /\ frame.limit <= frames[n].gas
        BY <3>2 DEF GasInv, GasSafe
      <3>4. left <= frame.limit
        BY <2>1, <3>2, <3>3
      <3>5. /\ Len(frames') = n
            /\ \A i \in 1..n : Alike(frames'[i], frames[i])
            /\ \A i \in 1..n : i # n => frames'[i].gas = frames[i].gas
            /\ frames'[n].gas = frames[n].gas - (frame.limit - left)
        BY <2>2, <2>4, <3>1
      <3>6. frames'[n].gas \in Nat /\ frames'[n].gas <= frames[n].gas
        BY <3>2, <3>3, <3>4, <3>5
      <3>7. GasSafe(frames', n)
        BY <3>5, <3>6, GasKept
      <3> QED  BY <3>5, <3>7 DEF GasInv
    <2> QED  BY <2>2, <2>3, <2>4
  <1>6. CASE UNCHANGED vars
    BY <1>6 DEF vars, GasInv, GasSafe
  <1> QED  BY <1>1, <1>3, <1>4, <1>5, <1>6, Steps DEF Outcome

\* GasInv holds throughout, as long as no gas operand is negative after the cast.
LEMMA GasInvariance == Unsigned => (Spec => []GasInv)
  <1> SUFFICES ASSUME Unsigned PROVE Spec => []GasInv
    OBVIOUS
  <1>1. Init => GasInv
    BY DEF Init, GasInv, GasSafe
  <1>2. TypeOK /\ GasInv /\ [Next]_vars => GasInv'
    BY NextGasInv
  <1> QED  BY <1>1, <1>2, TypeCorrect, PTL DEF Spec

\* No frame ever holds more gas than its message brought, if no gas operand becomes
\* negative in the cast of call_impl to int64_t (the run call_gas shows that this is
\* needed).
THEOREM GasWithinMessage == Unsigned => (Spec => []FrameGasWithinMessage)
  <1>1. GasInv => FrameGasWithinMessage
    BY DEF GasInv, GasSafe, FrameGasWithinMessage
  <1> QED  BY <1>1, GasInvariance, PTL

-----------------------------------------------------------------------------
(* The refinement of GasBudget.                                            *)

\* While frames run nothing has been returned.
ResultInv == frames = << >> \/ result = NoResult

\* Every step keeps the result unset while frames run.
LEMMA NextResultInv ==
    ASSUME TypeOK, ResultInv, [Next]_vars
    PROVE  ResultInv'
  <1>1. CASE Start
    BY <1>1 DEF Start, ResultInv
  <1>2. Running => result = NoResult
    BY DEF Running, ResultInv, TypeOK
  <1>3. CASE Running /\ (GoesOn \/ CallsOut)
    BY <1>2, <1>3 DEF GoesOn, CallsOut, Continue, Push, ResultInv
  <1>4. CASE Running /\ Leaves
    <2>1. \E status, gas, output, accs : Leave(status, gas, output, accs)
      BY <1>4 DEF Leaves
    <2> QED  BY <1>2, <1>4, <2>1 DEF Leave, ResultInv
  <1>5. CASE UNCHANGED vars
    BY <1>5 DEF vars, ResultInv
  <1> QED  BY <1>1, <1>3, <1>4, <1>5, Steps DEF Outcome

\* The budgets of a sequence of frames.
BudgetsOf(fs) == [i \in 1..Len(fs) |-> IF i = Len(fs) THEN fs[i].gas
                                                     ELSE fs[i].gas - fs[i + 1].limit]

\* The refinement mapping is BudgetsOf of the frames.
LEMMA BudgetsAre == Budgets = BudgetsOf(frames)
  BY DEF Budgets, BudgetsOf

\* A function on 1..n is a sequence.
LEMMA FunctionIsSeq ==
    ASSUME NEW n \in Nat, NEW f \in [1..n -> Nat]
    PROVE  f \in Seq(Nat) /\ Len(f) = n
  OBVIOUS

\* The budgets of safe frames are natural numbers, one for each frame.
LEMMA BudgetsType ==
    ASSUME NEW fs \in Seq(Frame), GasSafe(fs, Len(fs))
    PROVE  /\ BudgetsOf(fs) \in Seq(Nat) /\ Len(BudgetsOf(fs)) = Len(fs)
           /\ \A i \in 1..Len(fs) :
                 BudgetsOf(fs)[i] = IF i = Len(fs) THEN fs[i].gas
                                                   ELSE fs[i].gas - fs[i + 1].limit
  <1>1. Len(fs) \in Nat /\ \A i \in 1..Len(fs) : fs[i] \in Frame
    OBVIOUS
  <1>2. \A i \in 1..Len(fs) : fs[i].gas \in Int /\ fs[i].limit \in Int
    BY <1>1 DEF Frame
  <1>3. ASSUME NEW i \in 1..Len(fs)
        PROVE  (IF i = Len(fs) THEN fs[i].gas ELSE fs[i].gas - fs[i + 1].limit) \in Nat
    <2>1. CASE i = Len(fs)
      BY <1>2, <2>1 DEF GasSafe
    <2>2. CASE i # Len(fs)
      <3>1. i + 1 \in 1..Len(fs)
        BY <1>1, <2>2
      <3> QED  BY <1>2, <2>2, <3>1 DEF GasSafe
    <2> QED  BY <2>1, <2>2
  <1>4. BudgetsOf(fs) \in [1..Len(fs) -> Nat]
    BY <1>3 DEF BudgetsOf
  <1> QED  BY <1>1, <1>4, FunctionIsSeq DEF BudgetsOf

\* Two budgets that agree below n, as the steps of GasBudget write it.
LEMMA SameBelow ==
    ASSUME NEW b \in Seq(Nat), NEW c \in Seq(Nat), NEW n \in Nat, n <= Len(b), n <= Len(c),
           \A i \in 1..n : c[i] = b[i]
    PROVE  SubSeq(c, 1, n) = SubSeq(b, 1, n)
  OBVIOUS

\* A sequence is all but its last entry, and that entry.
LEMMA SplitLast ==
    ASSUME NEW c \in Seq(Nat), NEW n \in Nat, Len(c) = n + 1
    PROVE  c = Append(SubSeq(c, 1, n), c[n + 1])
  OBVIOUS

\* A sequence is all but its last two entries, and those two.
LEMMA SplitLastTwo ==
    ASSUME NEW c \in Seq(Nat), NEW n \in Nat, Len(c) = n + 2
    PROVE  c = SubSeq(c, 1, n) \o <<c[n + 1], c[n + 2]>>
  OBVIOUS

GiveBack(s, n, x) == [s EXCEPT ![n] = @ + x]

\* c holds the first n entries of b, with x more in the last of them.
HasBack(b, c, n, x) ==
    /\ n \in Nat \ {0} /\ x \in Nat
    /\ b \in Seq(Nat) /\ c \in Seq(Nat) /\ Len(c) = n /\ n <= Len(b)
    /\ c[n] = b[n] + x
    /\ \A i \in 1..n : i # n => c[i] = b[i]

\* Giving x back to entry n of what remains of b yields c.
LEMMA SetLast ==
    ASSUME NEW b, NEW c, NEW n, NEW x, HasBack(b, c, n, x)
    PROVE  c = GiveBack(SubSeq(b, 1, n), n, x)
  <1> DEFINE d == SubSeq(b, 1, n)
             e == GiveBack(d, n, x)
  <1>1. /\ n \in Nat \ {0} /\ x \in Nat
        /\ b \in Seq(Nat) /\ c \in Seq(Nat) /\ Len(c) = n /\ n <= Len(b)
        /\ c[n] = b[n] + x
        /\ \A i \in 1..n : i # n => c[i] = b[i]
    BY DEF HasBack
  <1>2. d \in Seq(Nat) /\ Len(d) = n /\ \A i \in 1..n : d[i] = b[i]
    BY <1>1
  <1>3. n \in 1..n
    BY <1>1
  <1> HIDE DEF d
  <1>4. d[n] + x \in Nat /\ d[n] + x = c[n]
    BY <1>1, <1>2, <1>3
  <1>5. e \in Seq(Nat) /\ Len(e) = n
    BY <1>1, <1>2, <1>3, <1>4 DEF GiveBack
  <1>6. \A i \in 1..n : e[i] = c[i]
    BY <1>1, <1>2, <1>3, <1>4 DEF GiveBack
  <1> HIDE DEF e
  <1>7. c = e
    BY <1>1, <1>5, <1>6
  <1> QED  BY <1>7 DEF d, e

\* Every step is one of GasBudget's, or changes neither budgets nor what was returned.
LEMMA NextRefines ==
    ASSUME Unsigned, TypeOK, TypeOK', GasInv, GasInv', ResultInv, [Next]_vars
    PROVE  Budget!Next \/ UNCHANGED Budget!vars
  <1> DEFINE b   == Budgets
             c   == Budgets'
             ret == IF result = NoResult THEN -1 ELSE result.gas_left
  <1>1. /\ b \in Seq(Nat) /\ Len(b) = Len(frames)
        /\ \A i \in 1..Len(frames) :
              b[i] = IF i = Len(frames) THEN frames[i].gas
                                        ELSE frames[i].gas - frames[i + 1].limit
    BY BudgetsAre, BudgetsType DEF TypeOK, GasInv
  <1>2. /\ c \in Seq(Nat) /\ Len(c) = Len(frames')
        /\ \A i \in 1..Len(frames') :
              c[i] = IF i = Len(frames') THEN frames'[i].gas
                                         ELSE frames'[i].gas - frames'[i + 1].limit
    <2>1. c = BudgetsOf(frames')
      BY DEF Budgets, BudgetsOf
    <2>2. frames' \in Seq(Frame) /\ GasSafe(frames', Len(frames'))
      BY DEF TypeOK, GasInv
    <2> QED  BY <2>1, <2>2, BudgetsType
  <1>3. Len(frames) \in Nat /\ (Running => Len(frames) > 0 /\ frame = frames[Len(frames)])
    BY DEF TypeOK, Running, frame
  <1> HIDE DEF b, c
  <1>4. CASE Start
    <2>1. Budget!depth = 0 /\ ret = -1
      BY <1>1, <1>4 DEF Start, Budget!depth, b
    <2>2. PICK m \in Messages :
             \/ /\ frames' = <<[recipient |-> m.recipient, sender |-> m.sender,
                                is_static |-> m.is_static, gas |-> m.gas, limit |-> m.gas,
                                rev |-> m.rev, code |-> m.code, code_address |-> NoAddress,
                                creates |-> FALSE]>>
                /\ UNCHANGED result
             \/ /\ result' = [status |-> "FAILURE", gas_left |-> m.gas]
                /\ UNCHANGED frames
      BY <1>4 DEF Start
    <2>3. CASE Len(frames') = 1 /\ UNCHANGED result
      <3>1. Budgets' \in Seq(Nat) /\ Len(Budgets') = 1 /\ UNCHANGED ret
        BY <1>2, <2>3 DEF c
      <3> QED  BY <2>1, <3>1 DEF Budget!Next, Budget!Start
    <2>4. CASE result' = [status |-> "FAILURE", gas_left |-> m.gas] /\ UNCHANGED frames
      <3>1. UNCHANGED Budgets
        BY <2>4 DEF Budgets
      <3>2. m.gas \in Nat
        BY AccountAssumption
      <3>3. result' # NoResult
        BY <2>4 DEF NoResult
      <3>4. ret' \in Nat
        BY <2>4, <3>2, <3>3
      <3> QED  BY <2>1, <3>1, <3>4 DEF Budget!Next, Budget!Start
    <2> QED  BY <2>2, <2>3, <2>4
  <1>5. CASE Running /\ GoesOn
    <2>1. PICK gas \in Nat : \E accs : Continue(gas, accs) /\ gas <= frame.gas
      BY <1>5 DEF GoesOn
    <2>2. /\ Len(frames') = Len(frames)
          /\ \A i \in 1..Len(frames) : Alike(frames'[i], frames[i])
          /\ \A i \in 1..Len(frames) : i # Len(frames) => frames'[i].gas = frames[i].gas
          /\ frames'[Len(frames)].gas = gas
      BY <1>5, <2>1, FramesAfterGoing
    <2>3. PICK n \in Nat : Len(frames) = n + 1
      <3>1. Len(frames) - 1 \in Nat /\ Len(frames) = (Len(frames) - 1) + 1
        BY <1>3, <1>5
      <3> QED  BY <3>1
    <2>4. ASSUME NEW i \in 1..n
          PROVE  c[i] = b[i]
      <3>1. /\ i \in 1..Len(frames) /\ i # Len(frames) /\ i + 1 \in 1..Len(frames)
            /\ i \in 1..Len(frames') /\ i # Len(frames')
        BY <2>2, <2>3
      <3>2. frames'[i].gas = frames[i].gas /\ frames'[i + 1].limit = frames[i + 1].limit
        BY <2>2, <3>1 DEF Alike
      <3> QED  BY <1>1, <1>2, <3>1, <3>2
    <2>5. c[n + 1] = gas /\ gas \in 0..b[n + 1]
      BY <1>1, <1>2, <1>3, <1>5, <2>1, <2>2, <2>3
    <2>6. c = Append(SubSeq(b, 1, n), gas)
      BY <1>1, <1>2, <2>2, <2>3, <2>4, <2>5, SameBelow, SplitLast
    <2>7. Budget!depth = n + 1 /\ Budget!Below = SubSeq(b, 1, n)
      BY <1>1, <2>3 DEF Budget!depth, Budget!Below, b
    <2>8. UNCHANGED ret
      BY <2>1 DEF Continue
    <2> QED  BY <2>5, <2>6, <2>7, <2>8 DEF Budget!Next, Budget!Spend, b, c
  <1>6. CASE Running /\ CallsOut
    <2>1. PICK gas \in Nat : \E accs, callee :
              /\ Push(gas, accs, callee) /\ callee \in Frame /\ callee.gas = callee.limit
              /\ callee.limit <= gas /\ callee.limit >= 0 /\ gas <= frame.gas
      BY <1>6 DEF CallsOut, Starts
    <2>2. PICK accs, callee :
              /\ Push(gas, accs, callee) /\ callee \in Frame /\ callee.gas = callee.limit
              /\ callee.limit <= gas /\ callee.limit >= 0 /\ gas <= frame.gas
      BY <2>1
    <2>3. PICK n \in Nat : Len(frames) = n + 1
      <3>1. Len(frames) - 1 \in Nat /\ Len(frames) = (Len(frames) - 1) + 1
        BY <1>3, <1>6
      <3> QED  BY <3>1
    <2>4. /\ Len(frames') = n + 2
          /\ \A i \in 1..n + 1 : Alike(frames'[i], frames[i])
          /\ \A i \in 1..n + 1 : i # n + 1 => frames'[i].gas = frames[i].gas
          /\ frames'[n + 1].gas = gas
          /\ frames'[n + 2] = callee
      <3>1. /\ Len(frames') = Len(frames) + 1
            /\ \A i \in 1..Len(frames) : Alike(frames'[i], frames[i])
            /\ \A i \in 1..Len(frames) : i # Len(frames) => frames'[i].gas = frames[i].gas
            /\ frames'[Len(frames)].gas = gas
            /\ frames'[Len(frames) + 1] = callee
        BY <1>6, <2>2, FramesAfterCalling
      <3> QED  BY <2>3, <3>1
    <2>5. ASSUME NEW i \in 1..n
          PROVE  c[i] = b[i]
      <3>1. /\ i \in 1..n + 1 /\ i # n + 1 /\ i + 1 \in 1..n + 1
            /\ i \in 1..n + 2 /\ i # n + 2
        OBVIOUS
      <3>2. frames'[i].gas = frames[i].gas /\ frames'[i + 1].limit = frames[i + 1].limit
        BY <2>4, <3>1 DEF Alike
      <3> QED  BY <1>1, <1>2, <2>3, <2>4, <3>1, <3>2
    <2>6. /\ c[n + 1] = gas - callee.limit /\ c[n + 2] = callee.limit
          /\ b[n + 1] = frame.gas
      BY <1>1, <1>2, <1>3, <1>6, <2>2, <2>3, <2>4
    <2>7. frame.gas \in Int /\ callee.limit \in Int
      BY <1>6, <2>2, FrameFields DEF Frame
    <2>8. /\ c[n + 1] \in 0..b[n + 1] /\ c[n + 2] \in 0..b[n + 1]
          /\ c[n + 1] + c[n + 2] <= b[n + 1]
      BY <2>2, <2>6, <2>7
    <2>9. c = SubSeq(b, 1, n) \o <<c[n + 1], c[n + 2]>>
      <3>1. n <= Len(b) /\ n <= Len(c) /\ Len(c) = n + 2
        BY <1>1, <1>2, <2>3, <2>4
      <3>2. SubSeq(c, 1, n) = SubSeq(b, 1, n)
        BY <1>1, <1>2, <2>5, <3>1, SameBelow
      <3> QED  BY <1>2, <3>1, <3>2, SplitLastTwo
    <2>10. Budget!depth = n + 1 /\ Budget!Below = SubSeq(b, 1, n)
      BY <1>1, <2>3 DEF Budget!depth, Budget!Below, b
    <2>11. UNCHANGED ret
      BY <2>2 DEF Push
    <2>12. \E kept, given \in 0..b[n + 1] :
              kept + given <= b[n + 1] /\ c = SubSeq(b, 1, n) \o <<kept, given>>
      BY <2>8, <2>9
    <2>13. Budget!Open
      <3>1. Budget!depth > 0
        BY <2>10
      <3>2. \E kept, given \in 0..Budgets[Budget!depth] :
               /\ kept + given <= Budgets[Budget!depth]
               /\ Budgets' = Budget!Below \o <<kept, given>>
        BY <2>10, <2>12 DEF b, c
      <3> QED  BY <3>1, <3>2, <2>11 DEF Budget!Open
    <2> QED  BY <2>13 DEF Budget!Next
  <1>7. CASE Running /\ Leaves
    <2>1. PICK left \in Nat : \E status, gas, output, accs :
              /\ Leave(status, gas, output, accs) /\ left = GasLeft(status, gas)
              /\ left = 0 \/ left <= frame.gas
              /\ status \in Errors \cup {"SUCCESS", "REVERT"}
      BY <1>7 DEF Leaves
    <2>2. PICK status, gas, output, accs :
              /\ Leave(status, gas, output, accs) /\ left = GasLeft(status, gas)
              /\ left = 0 \/ left <= frame.gas
              /\ status \in Errors \cup {"SUCCESS", "REVERT"}
      BY <2>1
    <2>3. \/ /\ Len(frames) - 1 = 0 /\ frames' = << >>
             /\ result' = [status |-> status, gas_left |-> left]
          \/ /\ Len(frames) - 1 > 0
             /\ Len(frames') = Len(frames) - 1
             /\ UNCHANGED result
             /\ \A i \in 1..Len(frames) - 1 : Alike(frames'[i], frames[i])
             /\ \A i \in 1..Len(frames) - 1 :
                   i # Len(frames) - 1 => frames'[i].gas = frames[i].gas
             /\ frames'[Len(frames) - 1].gas =
                   frames[Len(frames) - 1].gas - (frame.limit - left)
      BY <1>7, <2>2, FramesAfterLeaving
    <2>4. left \in 0..b[Len(frames)] /\ b[Len(frames)] = frame.gas
      <3>1. Len(frames) \in 1..Len(frames)
        BY <1>3, <1>7
      <3>2. b[Len(frames)] = frame.gas /\ frame.gas \in Int /\ frame.gas >= 0
        BY <1>1, <1>3, <1>7, <3>1, FrameFields DEF GasInv, GasSafe
      <3> QED  BY <2>2, <3>2
    <2>5. CASE /\ Len(frames) - 1 = 0 /\ frames' = << >>
               /\ result' = [status |-> status, gas_left |-> left]
      <3>1. Len(frames) = 1
        BY <1>3, <2>5
      <3>2. Budget!depth = 1
        BY <1>1, <3>1 DEF Budget!depth, b
      <3>3. status # "none"
        BY <2>2 DEF Errors
      <3>4. result' # NoResult
        BY <2>5, <3>3 DEF NoResult
      <3>5. ret' = left
        BY <2>5, <3>4
      <3>6. Len(c) = 0
        BY <1>2, <2>5
      <3>7. c = << >>
        BY <1>2, <3>6
      <3> QED  BY <2>4, <3>1, <3>2, <3>5, <3>7 DEF Budget!Next, Budget!Finish, b, c
    <2>6. CASE Len(frames) - 1 > 0
      <3>1. PICK n \in Nat \ {0} : Len(frames) = n + 1 /\ Len(frames) - 1 = n
        <4>1. Len(frames) - 1 \in Nat \ {0} /\ Len(frames) = (Len(frames) - 1) + 1
          BY <1>3, <2>6
        <4> QED  BY <4>1
      <3>2. /\ Len(frames') = n /\ UNCHANGED result
            /\ \A i \in 1..n : Alike(frames'[i], frames[i])
            /\ \A i \in 1..n : i # n => frames'[i].gas = frames[i].gas
            /\ frames'[n].gas = frames[n].gas - (frame.limit - left)
        BY <2>3, <2>6, <3>1
      <3>3. \A i \in 1..n : i # n => c[i] = b[i]
        <4>1. ASSUME NEW i \in 1..n, i # n
              PROVE  c[i] = b[i]
          <5>1. i \in 1..Len(frames) /\ i # Len(frames) /\ i + 1 \in 1..n
            BY <3>1, <4>1
          <5>2. frames'[i].gas = frames[i].gas /\ frames'[i + 1].limit = frames[i + 1].limit
            BY <3>2, <4>1, <5>1 DEF Alike
          <5> QED  BY <1>1, <1>2, <3>2, <4>1, <5>1, <5>2
        <4> QED  BY <4>1
      <3>4. /\ frames[n].gas \in Int /\ frame.limit \in Int /\ frame = frames[n + 1]
            /\ n \in 1..Len(frames) /\ n # Len(frames)
        BY <1>3, <1>7, <3>1, GasNumbers
      <3>5. c[n] = frames[n].gas - (frame.limit - left) /\ b[n] = frames[n].gas - frame.limit
        BY <1>1, <1>2, <3>1, <3>2, <3>4
      <3>6. c[n] = b[n] + left
        BY <3>4, <3>5
      <3>7. c = [SubSeq(b, 1, n) EXCEPT ![n] = @ + left]
        <4>1. n <= Len(b) /\ Len(c) = n
          BY <1>1, <1>2, <3>1, <3>2
        <4>2. HasBack(b, c, n, left)
          BY <1>1, <1>2, <3>3, <3>6, <4>1 DEF HasBack
        <4>3. c = GiveBack(SubSeq(b, 1, n), n, left)
          BY <4>2, SetLast
        <4> QED  BY <4>3 DEF GiveBack
      <3>8. /\ Budget!depth = n + 1 /\ Budget!Below = SubSeq(b, 1, n)
            /\ Budget!depth - 1 = n /\ Budget!depth > 1
        BY <1>1, <3>1 DEF Budget!depth, Budget!Below, b
      <3>9. UNCHANGED ret
        BY <3>2
      <3> QED  BY <2>4, <3>1, <3>7, <3>8, <3>9 DEF Budget!Next, Budget!Close, b, c
    <2> QED  BY <2>3, <2>5, <2>6
  <1>8. CASE UNCHANGED vars
    BY <1>8 DEF vars, Budgets, Budget!vars
  <1> QED  BY <1>4, <1>5, <1>6, <1>7, <1>8, Steps DEF Outcome

\* CallFrames implements GasBudget: no call, creation or return makes gas out of
\* nothing, if no gas operand becomes negative in the cast of call_impl.
THEOREM BudgetImplemented == Unsigned => (Spec => ImplementsBudget)
  <1> SUFFICES ASSUME Unsigned PROVE Spec => ImplementsBudget
    OBVIOUS
  <1>1. Init => Budget!Init /\ ResultInv
    <2>1. ASSUME Init PROVE Budgets = << >>
      BY <2>1 DEF Init, Budgets
    <2> QED  BY <2>1 DEF Init, Budget!Init, ResultInv
  <1>2. TypeOK /\ ResultInv /\ [Next]_vars => ResultInv'
    BY NextResultInv
  <1>3. TypeOK /\ TypeOK' /\ GasInv /\ GasInv' /\ ResultInv /\ [Next]_vars
            => [Budget!Next]_Budget!vars
    BY NextRefines
  <1>4. Spec => []TypeOK /\ []GasInv
    BY TypeCorrect, GasInvariance, PTL
  <1>5. Spec => Budget!Init /\ [][Budget!Next]_Budget!vars
    BY <1>1, <1>2, <1>3, <1>4, PTL DEF Spec
  <1> QED  BY <1>5, PTL DEF ImplementsBudget, Budget!Spec
=============================================================================
