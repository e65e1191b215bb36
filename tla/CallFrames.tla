---------------------------- MODULE CallFrames ----------------------------
(***************************************************************************)
(* Frames and accounts: evaluate(), the instructions that make a frame     *)
(* call, create, store, self-destruct or return, and the host behind them. *)
(*                                                                         *)
(* The execution is sequential: an instruction that calls the host ends    *)
(* here by pushing a frame, and the rest of its handler runs when that     *)
(* frame leaves.  What a frame computes plays no part: it may execute any  *)
(* instruction with any operands, so words are kept only where the host,   *)
(* the gas or a guard depends on them.  Traces are in the modules RwTable  *)
(* and Interpreter; gas refunds, output copied to memory, and the memory   *)
(* itself (but for what growing it costs) are left out.                    *)
(***************************************************************************)
EXTENDS EvmCode, FiniteSets, Functions

CONSTANTS
    Addresses,        \* the addresses in use, numbers as in calculate_address
    Keys, Words,      \* the storage keys in use and the words stored
    Codes,            \* non-empty codes
    EofCodes,         \* those of them that start with the EOF prefix
    NoCode,           \* the empty code
    CodeWords,        \* the size of a code, in words
    CodeHash,         \* keccak256 of a code, as a number
    Rehash,           \* the address in the keccak256 of a word
    Messages,         \* the messages evaluate() may be called with
    InitialAccounts,  \* the accounts the host may be constructed with
    GasOperands,      \* words used as gas operand of a call
    CallValues,       \* words used as value and as endowment
    Salts,            \* words used as salt
    MemoryCosts,      \* what growing the memory may cost
    StepCosts         \* what the other instructions may cost

CONSTANTS             \* in the code:
    LimbMod,          \*   2^64, the values of to_uint64()
    WordMod,          \*   2^256, the values of a word
    CallDepthLimit,   \*   1024
    GasDivisor,       \*   64
    CallCost,         \*   40, 700 or 100, by revision
    ColdAccountCost,  \*   additional_cold_account_access_cost, 2500
    ValueCost,        \*   9000
    Stipend,          \*   2300
    NewAccountCost,   \*   25000
    CreateCost,       \*   32000
    MaxInitWords,     \*   0xC000 / 32
    SstoreMinimum,    \*   2300
    ColdSloadCost,    \*   2100
    WarmAccess,       \*   storage_cost_spec[rev].warm_access: 200, 800 or 100
    StoreReset,       \*   storage_cost_spec[rev].reset: 5000 or 2900
    TstoreCost,       \*   100
    SelfdestructCost, \*   0 or 5000
    ColdBeneficiary   \*   cold_account_access_cost, 2600

Costs == {CallCost, ColdAccountCost, ValueCost, Stipend, NewAccountCost, CreateCost,
          SstoreMinimum, ColdSloadCost, WarmAccess, StoreReset, TstoreCost,
          SelfdestructCost, ColdBeneficiary}

ASSUME CostAssumption ==
    /\ Costs \subseteq Nat
    /\ Stipend <= ValueCost
    /\ MemoryCosts \subseteq Nat /\ StepCosts \subseteq Nat \ {0}
    /\ GasDivisor \in Nat \ {0}
ASSUME WordAssumption ==
    /\ LimbMod \in Nat \ {0} /\ WordMod \in Nat \ {0}
    /\ Addresses \subseteq Nat /\ Salts \subseteq Nat
    /\ CodeWords \in [Codes \cup {NoCode} -> Nat] /\ CodeHash \in [Codes \cup {NoCode} -> Nat]
    /\ \A c \in Codes \cup {NoCode} : CodeWords[c] = 0 <=> c = NoCode
    /\ GasOperands \subseteq 0..WordMod - 1 /\ CallValues \subseteq 0..WordMod - 1
    /\ Rehash \in [0..WordMod - 1 -> Addresses]
    /\ 0 \in Words /\ NoCode \notin Codes
ASSUME DepthAssumption == CallDepthLimit \in Nat

NoAddress == -1

(***************************************************************************)
(* The accounts of the host, a map: an address outside the domain has no   *)
(* account, a key outside the domain of its storage is not in that map.    *)
(***************************************************************************)
Maps    == UNION {[K -> Words] : K \in SUBSET Keys}
Account == [balance : 0..WordMod - 1, code : Codes \cup {NoCode},
            storage : Maps, transient_storage : Maps]

IsAccounts(accs) ==
    DOMAIN accs \subseteq Addresses /\ \A a \in DOMAIN accs : accs[a] \in Account

NewAccount == [balance |-> 0, code |-> NoCode,
               storage |-> << >>, transient_storage |-> << >>]

ASSUME AccountAssumption ==
    /\ \A accs \in InitialAccounts : IsAccounts(accs)
    /\ \A m \in Messages :
          /\ m.recipient \in Addresses /\ m.sender \in Addresses
          /\ m.is_static \in BOOLEAN /\ m.gas \in Nat /\ 2 * m.gas < LimbMod
          /\ m.rev \in Revision /\ m.code \in Codes

VARIABLES
    frames,     \* the running frames, the outermost first
    accounts,   \* VMHost::accounts
    result      \* what the outermost evaluate() returned

vars == <<frames, accounts, result>>

NoResult == [status |-> "none", gas_left |-> 0]

depth == Len(frames) - 1            \* state.msg->depth of the frame on top
frame == frames[Len(frames)]        \* state of the frame on top
rev   == frame.rev
Running == Len(frames) > 0

-----------------------------------------------------------------------------
(* VMHost.  access_account and access_storage always answer that the       *)
(* access is cold, and selfdestruct does nothing.                          *)

account_exists(a) == a \in DOMAIN accounts
get_balance(a)    == IF account_exists(a) THEN accounts[a].balance ELSE 0
get_code(a)       == IF account_exists(a) THEN accounts[a].code ELSE NoCode

\* set_storage changes only a key that the account has, and says what it did.
set_storage(a, key, value) ==
    IF account_exists(a) /\ key \in DOMAIN accounts[a].storage
    THEN [accounts EXCEPT ![a].storage[key] = value]
    ELSE accounts

StorageStatus(a, key, value) ==
    IF account_exists(a) /\ key \in DOMAIN accounts[a].storage
    THEN IF accounts[a].storage[key] = value THEN "ASSIGNED" ELSE "MODIFIED"
    ELSE "DELETED"

set_transient_storage(a, key, value) ==
    IF account_exists(a)
    THEN [accounts EXCEPT ![a].transient_storage =
              [k \in DOMAIN @ \cup {key} |-> IF k = key THEN value ELSE @[k]]]
    ELSE accounts

\* accounts[a] = {} if a is not in the map.
WithAccount(accs, a) ==
    [b \in DOMAIN accs \cup {a} |-> IF b \in DOMAIN accs THEN accs[b] ELSE NewAccount]

\* The balances are words; the second assignment reads what the first wrote.
Transfer_stale(accs, from, to, value) ==
    [accs EXCEPT ![from].balance = (@ - value) % WordMod,
                 ![to].balance = (value + accs[to].balance) % WordMod]
Transfer(accs, from, to, value) ==
    LET paid == [accs EXCEPT ![from].balance = (@ - value) % WordMod]
    IN  [paid EXCEPT ![to].balance = (value + @) % WordMod]

calculate_address(sender, salt, code) ==
    Rehash[(255 + salt + CodeHash[code] + sender) % WordMod]

-----------------------------------------------------------------------------
(* How an instruction ends.                                                *)

\* It goes on with gas left, after changing the accounts.
Continue(gas, accs) ==
    /\ frames' = [frames EXCEPT ![Len(frames)].gas = gas]
    /\ accounts' = accs
    /\ UNCHANGED result

\* It starts a frame, with gas left to the one that stays below.
Push(gas, accs, callee) ==
    /\ frames' = Append([frames EXCEPT ![Len(frames)].gas = gas], callee)
    /\ accounts' = accs
    /\ UNCHANGED result

\* It ends the frame: evaluate() keeps the gas of a success or a revert only,
\* handle_create stores the code a successful init code returns, and the caller
\* is charged what the message used.  Nothing is taken back from the accounts.
GasLeft(status, gas) == IF status \in {"SUCCESS", "REVERT"} THEN gas ELSE 0

Leave_refund(status, gas, output, accs) ==
    /\ accounts' = accs
    /\ IF depth = 0
       THEN /\ frames' = << >>
            /\ result' = [status |-> status, gas_left |-> GasLeft(status, gas)]
       ELSE /\ frames' = [SubSeq(frames, 1, depth) EXCEPT
                             ![depth].gas = @ + GasLeft(status, gas)]
            /\ UNCHANGED result
Leave(status, gas, output, accs) ==
    LET left  == GasLeft(status, gas)
        below == SubSeq(frames, 1, depth)
    IN  /\ accounts' = IF frame.creates /\ status = "SUCCESS"
                       THEN [accs EXCEPT ![frame.recipient].code = output]
                       ELSE accs
        /\ IF depth = 0
           THEN frames' = << >> /\ result' = [status |-> status, gas_left |-> left]
           ELSE /\ frames' = [below EXCEPT ![depth].gas = @ - (frame.limit - left)]
                /\ UNCHANGED result

Fail(status, accs) == Leave(status, 0, NoCode, accs)

-----------------------------------------------------------------------------
(* evaluate() called from outside, on code of its own and with accounts    *)
(* that need not hold the recipient or the sender.                         *)

Start ==
    /\ frames = << >> /\ result = NoResult
    /\ \E m \in Messages :
          \/ /\ frames' = <<[recipient |-> m.recipient, sender |-> m.sender,
                             is_static |-> m.is_static, gas |-> m.gas, limit |-> m.gas,
                             rev |-> m.rev, code |-> m.code, code_address |-> NoAddress,
                             creates |-> FALSE]>>
             /\ UNCHANGED result
          \/ /\ result' = [status |-> "FAILURE", gas_left |-> m.gas]  \* unknown circuit
             /\ UNCHANGED frames
    /\ UNCHANGED accounts

-----------------------------------------------------------------------------
(* Instructions that concern the frame only.                               *)

Execute(cost) ==
    /\ Running
    /\ IF frame.gas >= cost THEN Continue(frame.gas - cost, accounts)
                            ELSE Fail("OUT_OF_GAS", accounts)

\* STOP, RETURN and REVERT; a frame may fail in ways of its own at any time.
Return(status, cost, output) ==
    /\ Running
    /\ IF frame.gas >= cost THEN Leave(status, frame.gas - cost, output, accounts)
                            ELSE Fail("OUT_OF_GAS", accounts)

Break ==
    /\ Running
    /\ Fail("FAILURE", accounts)

-----------------------------------------------------------------------------
(* CALL, CALLCODE, DELEGATECALL and STATICCALL.                            *)

\* The cost table of the revision defines the instruction.
Available(op) ==
    /\ op = "DELEGATECALL" => rev >= HOMESTEAD
    /\ op = "STATICCALL" => rev >= BYZANTIUM
    /\ op = "CREATE2" => rev >= CONSTANTINOPLE

TooDeep_late == depth > CallDepthLimit
TooDeep == depth >= CallDepthLimit

CallOps == {"CALL", "CALLCODE", "DELEGATECALL", "STATICCALL"}

\* The cast of a uint64_t to int64_t.
to_int64(w) ==
    LET n == w % LimbMod IN IF 2 * n >= LimbMod THEN n - LimbMod ELSE n

Smaller(m, n) == IF m < n THEN m ELSE n

\* msg.gas before the stipend: a part of what is left stays with the caller.
MessageGas_uncapped(wanted, left) == wanted
MessageGas(wanted, left) ==
    IF rev >= TANGERINE_WHISTLE THEN Smaller(wanted, left - left \div GasDivisor)
                                ELSE wanted

\* The base cost, the cold account, and what the two buffers add to the memory.
CallEntry(memory) ==
    CallCost + memory + (IF rev >= BERLIN THEN ColdAccountCost ELSE 0)

CallCharge(op, dst, value) ==
    (IF value # 0 THEN ValueCost ELSE 0)
    + (IF /\ op = "CALL"
          /\ value # 0 \/ rev < SPURIOUS_DRAGON
          /\ ~account_exists(dst)
       THEN NewAccountCost ELSE 0)

\* Failures that leave a zero on the stack and go on.
LightFailure(op, dst, value) ==
    \/ TooDeep
    \/ value # 0 /\ get_balance(frame.recipient) < value
    \/ /\ op = "DELEGATECALL" /\ rev >= PRAGUE
       /\ frame.code \in EofCodes /\ get_code(dst) \notin EofCodes

\* The message of a call.
CallFlags_own(op) == op = "STATICCALL"
CallFlags(op) == op = "STATICCALL" \/ frame.is_static

CallMessage(op, dst, gas) ==
    [recipient |-> IF op \in {"CALL", "STATICCALL"} THEN dst ELSE frame.recipient,
     sender |-> IF op = "DELEGATECALL" THEN frame.sender ELSE frame.recipient,
     is_static |-> CallFlags(op), gas |-> gas, limit |-> gas,
     rev |-> SHANGHAI,                             \* EVMC_LATEST_STABLE_REVISION
     code |-> get_code(dst), code_address |-> dst, creates |-> FALSE]

\* The caller holds gas, the gas of the message included.
handle_call(op, msg, value, gas) ==
    IF ~account_exists(msg.sender)
    THEN Continue(gas - msg.gas, accounts)         \* EVMC_INTERNAL_ERROR
    ELSE LET there == WithAccount(accounts, msg.code_address)
             moved == IF op \in {"CALL", "STATICCALL"}
                      THEN Transfer(there, msg.sender, msg.code_address, value)
                      ELSE there
         IN  IF msg.code = NoCode THEN Continue(gas, moved)
                                  ELSE Push(gas, moved, msg)

call_impl(op, dst, operand, value, memory) ==
    LET entry   == frame.gas - CallEntry(memory)
        left    == entry - CallCharge(op, dst, value)
        wanted  == to_int64(operand)
        granted == MessageGas(wanted, left)
        stipend == IF value # 0 THEN Stipend ELSE 0
        barred  == op = "CALL" /\ value # 0 /\ frame.is_static
        paid    == /\ entry >= 0 /\ ~barred /\ left >= 0
                   /\ rev >= TANGERINE_WHISTLE \/ wanted <= left
    IN  /\ Running /\ Available(op)
        /\ op \in {"STATICCALL", "DELEGATECALL"} => value = 0
        /\ \/ entry >= 0 /\ barred /\ Fail("STATIC_MODE_VIOLATION", accounts)
           \/ ~paid /\ ~(entry >= 0 /\ barred) /\ Fail("OUT_OF_GAS", accounts)
           \/ paid /\ LightFailure(op, dst, value) /\ Continue(left + stipend, accounts)
           \/ /\ paid /\ ~LightFailure(op, dst, value)
              /\ handle_call(op, CallMessage(op, dst, granted + stipend), value,
                             left + stipend)

-----------------------------------------------------------------------------
(* CREATE and CREATE2.  The endowment is checked but never moved.          *)

InitWordCost(op) ==
    (IF op = "CREATE2" THEN 6 ELSE 0) + (IF rev >= SHANGHAI THEN 2 ELSE 0)

CreateMessage(new, code, gas) ==
    [recipient |-> new, sender |-> frame.recipient, is_static |-> FALSE,
     gas |-> gas, limit |-> gas, rev |-> SHANGHAI, code |-> code,
     code_address |-> NoAddress, creates |-> TRUE]

handle_create_overwrite(new, code, msg, gas) ==
    IF code = NoCode THEN Continue(gas, WithAccount(accounts, new))
                     ELSE Push(gas, WithAccount(accounts, new), msg)
handle_create(new, code, msg, gas) ==
    IF account_exists(new)
    THEN Continue(gas - msg.gas, accounts)         \* address collision
    ELSE IF code = NoCode
         THEN Continue(gas, WithAccount(accounts, new))
         ELSE Push(gas, WithAccount(accounts, new), msg)

create_impl(op, endowment, code, salt, memory) ==
    LET words == CodeWords[code]
        entry == frame.gas - CreateCost
        left  == entry - memory - words * InitWordCost(op)
        gas   == IF rev >= TANGERINE_WHISTLE THEN left - left \div GasDivisor ELSE left
        new   == calculate_address(frame.recipient, salt, code)
        paid  == /\ entry >= 0 /\ left >= 0 /\ ~frame.is_static
                 /\ ~(rev >= SHANGHAI /\ words > MaxInitWords)
        light == TooDeep \/ get_balance(frame.recipient) < endowment
    IN  /\ Running /\ Available(op)
        /\ op = "CREATE" => salt = 0
        /\ \/ entry >= 0 /\ frame.is_static /\ Fail("STATIC_MODE_VIOLATION", accounts)
           \/ ~paid /\ ~(entry >= 0 /\ frame.is_static) /\ Fail("OUT_OF_GAS", accounts)
           \/ paid /\ light /\ Continue(left, accounts)
           \/ paid /\ ~light /\ handle_create(new, code, CreateMessage(new, code, gas), left)

-----------------------------------------------------------------------------
(* SSTORE, TSTORE and SELFDESTRUCT.                                        *)

\* sstore_costs, for the statuses that the host returns.
net_cost == rev = CONSTANTINOPLE \/ rev >= ISTANBUL
sstore_costs(status) ==
    IF status = "ASSIGNED" /\ net_cost THEN WarmAccess ELSE StoreReset

\* The host has stored the value when the gas is charged.
sstore_free(key, value) ==
    /\ Running /\ ~frame.is_static
    /\ Continue(frame.gas, set_storage(frame.recipient, key, value))
sstore(key, value) ==
    LET status == StorageStatus(frame.recipient, key, value)
        cost   == sstore_costs(status) + (IF rev >= BERLIN THEN ColdSloadCost ELSE 0)
        stored == set_storage(frame.recipient, key, value)
        early  == frame.gas < 0 \/ (rev >= ISTANBUL /\ frame.gas <= SstoreMinimum)
    IN  /\ Running
        /\ \/ frame.gas >= 0 /\ frame.is_static /\ Fail("STATIC_MODE_VIOLATION", accounts)
           \/ early /\ ~(frame.gas >= 0 /\ frame.is_static) /\ Fail("OUT_OF_GAS", accounts)
           \/ /\ ~early /\ ~frame.is_static
              /\ frame.gas >= cost
              /\ Continue(frame.gas - cost, stored)
           \/ /\ ~early /\ ~frame.is_static
              /\ frame.gas < cost
              /\ Fail("OUT_OF_GAS", stored)

tstore(key, value) ==
    LET left == frame.gas - TstoreCost
    IN  /\ Running /\ rev >= CANCUN
        /\ \/ left < 0 /\ Fail("OUT_OF_GAS", accounts)
           \/ left >= 0 /\ frame.is_static /\ Fail("STATIC_MODE_VIOLATION", accounts)
           \/ /\ left >= 0 /\ ~frame.is_static
              /\ Continue(left, set_transient_storage(frame.recipient, key, value))

\* The frame ends; no balance moves and the account stays.
selfdestruct(beneficiary) ==
    LET entry == frame.gas - SelfdestructCost
        sends == rev = TANGERINE_WHISTLE \/ get_balance(frame.recipient) # 0
        left  == entry - (IF rev >= BERLIN THEN ColdBeneficiary ELSE 0)
                       - (IF /\ rev >= TANGERINE_WHISTLE /\ sends
                             /\ ~account_exists(beneficiary)
                          THEN NewAccountCost ELSE 0)
        barred == entry >= 0 /\ frame.is_static
    IN  /\ Running
        /\ \/ barred /\ Fail("STATIC_MODE_VIOLATION", accounts)
           \/ ~barred /\ left < 0 /\ Fail("OUT_OF_GAS", accounts)
           \/ ~barred /\ left >= 0 /\ Leave("SUCCESS", left, NoCode, accounts)

-----------------------------------------------------------------------------
(* The specification.                                                      *)

Init ==
    /\ frames = << >>
    /\ accounts \in InitialAccounts
    /\ result = NoResult

Call ==
    \E op \in CallOps, dst \in Addresses, operand \in GasOperands,
       value \in CallValues \cup {0}, memory \in MemoryCosts :
       call_impl(op, dst, operand, value, memory)

Create ==
    \E op \in {"CREATE", "CREATE2"}, endowment \in CallValues \cup {0},
       code \in Codes \cup {NoCode}, salt \in Salts \cup {0}, memory \in MemoryCosts :
       create_impl(op, endowment, code, salt, memory)

Store == \E key \in Keys, value \in Words : sstore(key, value) \/ tstore(key, value)

Other ==
    \/ \E cost \in StepCosts : Execute(cost)
    \/ \E cost \in MemoryCosts :
          \/ \E output \in Codes \cup {NoCode} : Return("SUCCESS", cost, output)
          \/ Return("REVERT", cost, NoCode)
    \/ Break

\* The outermost evaluate() has returned.
Done == result # NoResult /\ UNCHANGED vars

Next == Start \/ Call \/ Create \/ Store \/ (\E b \in Addresses : selfdestruct(b))
        \/ Other \/ Done

Spec == Init /\ [][Next]_vars
FairSpec == Spec /\ WF_vars(Next)

-----------------------------------------------------------------------------
(* Properties.                                                             *)

Frame == [recipient : Addresses, sender : Addresses, is_static : BOOLEAN, gas : Int,
          limit : Int, rev : Revision, code : Codes,
          code_address : Addresses \cup {NoAddress}, creates : BOOLEAN]

\* Frames, accounts and the result have their types, and calls nest no deeper
\* than the depth limit lets call_impl and create_impl nest them.
TypeOK ==
    /\ frames \in Seq(Frame) /\ Len(frames) <= CallDepthLimit + 1
    /\ IsAccounts(accounts)
    /\ result.gas_left \in Nat

\* A frame never holds more gas than its message brought, whatever the frames it
\* called returned: call_impl and create_impl charge msg.gas - result.gas_left.
FrameGasWithinMessage == \A i \in 1..Len(frames) : frames[i].gas <= frames[i].limit

\* Every step of frames and host spends gas, splits it between caller and message
\* or returns what is left of it, as the abstract GasBudget says.
Budgets == [i \in 1..Len(frames) |->
               IF i = Len(frames) THEN frames[i].gas
                                  ELSE frames[i].gas - frames[i + 1].limit]
Budget == INSTANCE GasBudget WITH
              budgets  <- Budgets,
              returned <- IF result = NoResult THEN -1 ELSE result.gas_left
ImplementsBudget == Budget!Spec

\* From the moment a frame is static until it leaves, no instruction of it or of a
\* frame below changes the balance, the code or the storage of an account.
StaticKeepsAccounts ==
    [][(\E i \in 1..Len(frames) : frames[i].is_static) =>
           \A a \in DOMAIN accounts : a \in DOMAIN accounts' /\ accounts'[a] = accounts[a]]_vars

Supply == FoldFunction(LAMBDA account, sum : account.balance + sum, 0, accounts)

\* The sum of all balances never changes: handle_call moves a value that call_impl
\* has checked, also when an account calls itself or one that is created for it.
BalanceConserved ==
    [][Supply' = Supply]_vars

\* The code that handle_call gave a frame a pointer to stays in its account, as it
\* is, until the frame leaves, also when frames below create contracts.
RunningCodeKept ==
    \A i \in 1..Len(frames) :
        frames[i].code_address # NoAddress =>
            get_code(frames[i].code_address) = frames[i].code

\* Every evaluation returns: each instruction that goes on costs gas, and calls
\* return no more gas than they take.
Terminates == <>(result # NoResult)

=============================================================================
