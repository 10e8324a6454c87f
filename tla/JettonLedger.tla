---------------------------- MODULE JettonLedger ----------------------------
(***************************************************************************)
(* The jetton: contracts/JettonMaster.tact and contracts/JettonWallet.tact *)
(* as actors that send each other messages.  A wallet is named by its      *)
(* owner (its address is computed from the owner and the master).  The     *)
(* chain delivers the messages of one sender to one receiver in order and  *)
(* others in any order; a message that cannot be paid for is not sent      *)
(* (SendIgnoreErrors); a delivery that fails bounces when the sender asked *)
(* for it, and a bounce that fails is gone.                                *)
(*                                                                         *)
(* Left out: payloads, the notification and excess messages, content and   *)
(* getters (no balance depends on them), mintable (always true), and the   *)
(* compliance status, which no message of the master ever changes.         *)
(***************************************************************************)
EXTENDS Integers, Sequences, SequencesExt

CONSTANTS
  Account,     \* addresses of workchain 0: owners of wallets and of the master
  Foreign,     \* an address of another workchain
  Master,      \* the address of the master contract
  Amount,      \* amounts of an order
  WalletLists, \* lists of wallets an administrator passes to a broadcast
  MaxOrders,   \* bound: messages sent by people
  MaxFaults    \* bound: messages unpaid, bounced or lost

Owner == Account \cup {Foreign}
Address == Owner \cup {Master}

ASSUME LedgerAssumption ==
  /\ IsFiniteSet(Account) /\ Foreign \notin Account /\ Master \notin Owner
  /\ Amount \subseteq Nat /\ MaxOrders \in Nat /\ MaxFaults \in Nat
  /\ WalletLists \subseteq Seq(Owner)

VARIABLES
  admin,   \* owner of the master
  supply,  \* total_supply
  enabled, \* transfers_enabled of the master
  vault,   \* vault_address of the master
  wallet,  \* the wallets, by owner
  net,     \* messages on the way
  orders, faults

master == <<admin, supply, enabled, vault>>
vars == <<master, wallet, net, orders, faults>>

Wallet == [deployed : BOOLEAN, balance : Nat, enabled : BOOLEAN,
           vault : Address, operator : BOOLEAN]

\* init of the wallet: closed, no operator, the master as vault.
NewWallet == [deployed |-> FALSE, balance |-> 0, enabled |-> FALSE,
              vault |-> Master, operator |-> FALSE]

Value(kind, src, dst, amount) ==
  [kind |-> kind, src |-> src, dst |-> dst, amount |-> amount]
Sync(dst, open, to, operator) ==
  [kind |-> "sync", src |-> Master, dst |-> dst,
   enabled |-> open, vault |-> to, operator |-> operator]
NewVault(dst, to) == [kind |-> "vault", src |-> Master, dst |-> dst, vault |-> to]

Message ==
  [kind : {"transfer", "burned", "bounced"}, src : Address, dst : Address, amount : Nat]
    \cup [kind : {"sync"}, src : {Master}, dst : Owner, enabled : BOOLEAN,
          vault : Address, operator : BOOLEAN]
    \cup [kind : {"vault"}, src : {Master}, dst : Owner, vault : Address]

Init ==
  /\ admin \in Account /\ vault \in Account
  /\ supply = 0 /\ enabled = FALSE
  /\ wallet = [o \in Owner |-> NewWallet]
  /\ net = <<>> /\ orders = 0 /\ faults = 0

-----------------------------------------------------------------------------
(* Sending *)

Ordered == orders < MaxOrders /\ orders' = orders + 1

\* The messages of one handler that could be paid for: a prefix of them.
Sends(ms) ==
  \E n \in 0 .. Len(ms) :
    /\ net' = net \o SubSeq(ms, 1, n)
    /\ n < Len(ms) => faults < MaxFaults
    /\ faults' = IF n < Len(ms) THEN faults + 1 ELSE faults

-----------------------------------------------------------------------------
(* The master: every order below is its owner's *)

\* MasterMint and MasterMintWithPayload: the supply grows when the message
\* is sent off, whatever becomes of it.
Mint(who, to, amount) ==
  /\ Ordered /\ who = admin /\ to # Foreign
  /\ supply' = supply + amount
  /\ Sends(<<Value("transfer", Master, to, amount)>>)
  /\ UNCHANGED <<admin, enabled, vault, wallet>>

\* broadcastSyncPolicy always sends is_operator = false.
Broadcast(list, open) == [i \in DOMAIN list |-> Sync(list[i], open, vault, FALSE)]

SetTransfersEnabled(who, open, list) ==
  /\ Ordered /\ who = admin
  /\ enabled' = open
  /\ Sends(Broadcast(list, open))
  /\ UNCHANGED <<admin, supply, vault, wallet>>

ChangeAdmin(who, to, list) ==
  /\ Ordered /\ who = admin
  /\ admin' = to
  /\ Sends(Broadcast(list, enabled))
  /\ UNCHANGED <<supply, enabled, vault, wallet>>

\* A vault given here goes to the wallet and is not kept by the master.
SetOperator(who, of, operator, to) ==
  /\ Ordered /\ who = admin
  /\ Sends(<<Sync(of, enabled, to, operator)>>)
  /\ UNCHANGED <<master, wallet>>

UpdateVaultBatch(who, to, list) ==
  /\ Ordered /\ who = admin
  /\ vault' = to
  /\ Sends([i \in DOMAIN list |-> NewVault(list[i], to)])
  /\ UNCHANGED <<admin, supply, enabled, wallet>>

-----------------------------------------------------------------------------
(* A wallet: the orders of its owner *)

locked(w) == ~w.enabled /\ ~w.operator

\* The guards of TokenTransfer once its sender is the owner.
Accepts(w, amount) == amount > 0 /\ w.balance >= amount /\ ~locked(w)

\* Mutant: the amount leaves with the message and stays in the balance.
TransferKeeps(o, to, amount) ==
  /\ Ordered /\ wallet[o].deployed /\ Accepts(wallet[o], amount)
  /\ Sends(<<Value("transfer", o, to, amount)>>)
  /\ UNCHANGED <<master, wallet>>

\* TokenTransfer.  Its destination may be of any workchain.
Transfer(o, to, amount) ==
  /\ Ordered /\ wallet[o].deployed /\ Accepts(wallet[o], amount)
  /\ wallet' = [wallet EXCEPT ![o].balance = @ - amount]
  /\ Sends(<<Value("transfer", o, to, amount)>>)
  /\ UNCHANGED master

\* TokenBurn: a closed wallet burns all the same.
Burn(o, amount) ==
  /\ Ordered /\ wallet[o].deployed
  /\ amount > 0 /\ wallet[o].balance >= amount
  /\ wallet' = [wallet EXCEPT ![o].balance = @ - amount]
  /\ Sends(<<Value("burned", o, Master, amount)>>)
  /\ UNCHANGED master

-----------------------------------------------------------------------------
(* Delivery *)

\* Messages of one sender to one receiver arrive in the order sent.
FirstOfPair(i) ==
  \A j \in 1 .. i - 1 : net[j].src # net[i].src \/ net[j].dst # net[i].dst

Takes(i) == net' = RemoveAt(net, i) /\ UNCHANGED <<orders, faults>>

\* TokenInternalTransfer deploys the wallet when it is not there; a bounced
\* transfer or burn is credited again.
Credit(i) ==
  /\ net[i].kind \in {"transfer", "bounced"} /\ net[i].dst # Master
  /\ wallet' = [wallet EXCEPT ![net[i].dst].balance = @ + net[i].amount,
                              ![net[i].dst].deployed = TRUE]
  /\ Takes(i) /\ UNCHANGED master

\* TokenBurnNotification at the master.
BurnNotified(i) ==
  /\ net[i].kind = "burned"
  /\ supply' = supply - net[i].amount
  /\ Takes(i) /\ UNCHANGED <<admin, enabled, vault, wallet>>

\* SyncPolicy at a wallet; one that does not exist does not learn of it.
SyncPolicy(i) ==
  LET m == net[i]
  IN /\ m.kind = "sync"
     /\ wallet' = IF wallet[m.dst].deployed
                  THEN [wallet EXCEPT ![m.dst].enabled = m.enabled,
                                      ![m.dst].vault = m.vault,
                                      ![m.dst].operator = m.operator]
                  ELSE wallet
     /\ Takes(i) /\ UNCHANGED master

UpdateVault(i) ==
  LET m == net[i]
  IN /\ m.kind = "vault"
     /\ wallet' = IF wallet[m.dst].deployed
                  THEN [wallet EXCEPT ![m.dst].vault = m.vault] ELSE wallet
     /\ Takes(i) /\ UNCHANGED master

Faulty == faults < MaxFaults /\ faults' = faults + 1

\* A transfer or burn whose delivery fails comes back to its sender.
Bounce(i) ==
  /\ net[i].kind \in {"transfer", "burned"} /\ Faulty
  /\ net' = Append(RemoveAt(net, i),
                   Value("bounced", net[i].dst, net[i].src, net[i].amount))
  /\ UNCHANGED <<master, wallet, orders>>

\* Not asked to bounce, or a bounce that fails.
Lose(i) ==
  /\ net[i].kind \in {"sync", "vault", "bounced"} /\ Faulty
  /\ net' = RemoveAt(net, i)
  /\ UNCHANGED <<master, wallet, orders>>

\* The master has no handler for a bounced mint.
MintReturned(i) ==
  /\ net[i].kind = "bounced" /\ net[i].dst = Master
  /\ Takes(i) /\ UNCHANGED <<master, wallet>>

Orders ==
  \/ \E who \in Account :
       \/ \E to \in Owner, amount \in Amount : Mint(who, to, amount)
       \/ \E open \in BOOLEAN, list \in WalletLists : SetTransfersEnabled(who, open, list)
       \/ \E to \in Account, list \in WalletLists : ChangeAdmin(who, to, list)
       \/ \E of \in Account, operator \in BOOLEAN, to \in Account :
            SetOperator(who, of, operator, to)
       \/ \E to \in Account, list \in WalletLists : UpdateVaultBatch(who, to, list)
  \/ \E o \in Account, amount \in Amount :
       \/ \E to \in Owner : Transfer(o, to, amount)
       \/ Burn(o, amount)

Deliver ==
  \E i \in DOMAIN net : FirstOfPair(i) /\
    \/ Credit(i) \/ BurnNotified(i) \/ SyncPolicy(i) \/ UpdateVault(i)
    \/ Bounce(i) \/ Lose(i) \/ MintReturned(i)

Next == Orders \/ Deliver
Spec == Init /\ [][Next]_vars

-----------------------------------------------------------------------------
(* Properties *)

TypeOK ==
  /\ admin \in Account /\ supply \in Nat /\ enabled \in BOOLEAN /\ vault \in Account
  /\ wallet \in [Owner -> Wallet]
  /\ net \in Seq(Message)
  /\ orders \in 0 .. MaxOrders /\ faults \in 0 .. MaxFaults

\* What a message carries: none of the policy messages has an amount.
Carried(m) == IF "amount" \in DOMAIN m THEN m.amount ELSE 0

Balances == SumFunction([o \in Owner |-> wallet[o].balance])
OnTheWay == SumFunction([i \in DOMAIN net |-> Carried(net[i])])

\* The supply of the master covers every balance and every amount on the way,
\* however transfers, mints and burns fail and bounce: nothing is minted twice
\* by a bounce, a burn notification never takes the supply below zero, and no
\* wallet spends what it does not have (a balance is a natural number).
SupplyCovers == Balances + OnTheWay <= supply
LedgerInv == TypeOK /\ SupplyCovers
=============================================================================
