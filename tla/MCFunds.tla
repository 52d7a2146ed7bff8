------------------------------ MODULE MCFunds ------------------------------
(***************************************************************************)
(* What the wallet does with its funds and its keys, an instance for each:  *)
(* the asynchronous operations with the privatizer that chains them         *)
(* (Privatizer, AsyncRPCQueue), the calls that spend (WalletSpends), and    *)
(* the keys and the file that keeps them (WalletKeys).  `part' says which   *)
(* one a behaviour is about; the variables of the others do not change.     *)
(***************************************************************************)
EXTENDS Privatizer, TLC

CONSTANTS t1, t2

VARIABLES part,
          calls, ops, setLocked, txs, pendingSaplingMigrationTxs, byUser, freed,
          file, aside, loaded, pending, held, made, given, imported, phrases,
          backup, keysetup

spendvars == <<calls, ops, setLocked, txs, pendingSaplingMigrationTxs, byUser, freed>>
keyvars == <<file, aside, loaded, pending, held, made, given, imported, phrases,
             backup, keysetup>>

-----------------------------------------------------------------------------
(* The privatizer: enough for two works on their way at once; a deposit     *)
(* that comes while a work is on its way; a removal, with the end of the    *)
(* queue at any moment.                                                     *)
Rpc(kind, public, private, overwrite) ==
    [kind |-> kind, public |-> public, private |-> private, overwrite |-> overwrite]
Deposits(value) == [addr |-> t1, value |-> value]
Pair == <<Rpc("reservePrivate", None, t2, FALSE), Rpc("reservePublic", t1, None, FALSE)>>

MCOpids == 1..MaxOps
MCSetups ==
    {[deposits |-> <<Deposits(8)>>, calls |-> Pair, mayEnd |-> FALSE],
     [deposits |-> <<Deposits(5), Deposits(4)>>, calls |-> <<Rpc("add", t1, t2, FALSE)>>,
      mayEnd |-> FALSE],
     [deposits |-> <<Deposits(5)>>, calls |-> Pair \o <<Rpc("remove", t1, None, FALSE)>>,
      mayEnd |-> TRUE]}

-----------------------------------------------------------------------------
(* Coins 1 to 3, the last one of a coinbase; Sprout notes 4 to 6, Sapling   *)
(* notes 7 and 8; the values make a payment take one, two or three of them. *)
MCValue == <<3, 5, 6, 2, 3, 4, 3, 4>>

Send(from, t, z, to, fee) ==
    [rpc |-> "z_sendmany", from |-> from, t |-> t, z |-> z, to |-> to, fee |-> fee]
Shield(to, fee, limit) ==
    [rpc |-> "z_shieldcoinbase", to |-> to, fee |-> fee, limit |-> limit]
Merge(sources, to, fee, limit, notes) ==
    [rpc |-> "z_mergetoaddress", sources |-> sources, to |-> to, fee |-> fee,
     limit |-> limit, noteLimit |-> notes]
Pay(amount, subtract) == [rpc |-> "sendtoaddress", amount |-> amount, subtract |-> subtract]
Lock(unlock, which) == [rpc |-> "lockunspent", unlock |-> unlock, coins |-> which]
Block(height) == [rpc |-> height, fee |-> 1]

\* Two or three calls that want the same inputs.
SpendSetups ==
    {<<Send("sprout", <<1>>, <<3, 2>>, "sprout", 1), Merge({"sprout"}, "taddr", 1, 0, 0)>>,
     <<Merge({"taddr", "sprout"}, "sprout", 1, 0, 0), Lock(TRUE, {1}), Pay(4, FALSE)>>,
     <<Merge({"taddr", "sprout"}, "sprout", 4, 1, 2), Send("sprout", <<>>, <<1>>, "sprout", 0)>>,
     <<Merge({"taddr", "sapling"}, "sapling", 1, 0, 0), Merge({"sapling"}, "sapling", 1, 0, 0),
       Pay(2, TRUE)>>,
     <<Merge({"taddr"}, "taddr", 1, 1, 0), Pay(3, FALSE), Pay(2, TRUE)>>,
     <<Shield("sprout", 1, 0), Send("taddr", <<>>, <<5>>, "sapling", 1),
       Send("taddr", <<1>>, <<2, 1, 1>>, "sprout", 1)>>,
     <<Lock(FALSE, {1}), Shield("sapling", 1, 1), Send("taddr", <<1>>, <<>>, "none", 1),
       Pay(4, FALSE)>>,
     <<Send("sapling", <<1>>, <<2>>, "sapling", 1), Merge({"taddr", "sapling"}, "taddr", 1, 1, 1)>>,
     <<Block("height495"), Block("height499"), Send("sprout", <<>>, <<7, 1>>, "sprout", 1)>>,
     <<Send("sprout", <<>>, <<8>>, "sprout", 1), Send("sprout", <<>>, <<2, 2, 0>>, "sprout", 1)>>,
     <<Send("sprout", <<>>, <<9, 0>>, "sprout", 0)>>,
     <<Block("height495"), Merge({"sprout"}, "sprout", 1, 0, 2), Block("height499")>>,
     <<Block("height495"), Block("height499"), Block("height495")>>}

Spends == INSTANCE WalletSpends WITH
    Coins <- 1..3, Coinbase <- {3}, SproutNotes <- 4..6, SaplingNotes <- 7..8,
    Value <- MCValue, Setups <- SpendSetups, Threads <- 2, CENT <- 2,
    DustThreshold <- 2, FeePerInput <- 1, MaxMigrationTxs <- 2

-----------------------------------------------------------------------------
(* A new wallet, with or without a miner that holds a key, and an encrypted *)
(* one from before HD seeds; the calls that are made to each.               *)
New(rpcs, holders) ==
    [file |-> <<>>, made |-> 0, phrases |-> {}, calls |-> rpcs, holders |-> holders]
Encrypted(rpcs) ==
    [file |-> <<"crypted", <<"t", 1>>>> :> 0 @@ <<"crypted", <<"t", 2>>>> :> 0
              @@ <<"mkey", 1>> :> "p" @@ <<"defaultkey", 0>> :> 1 @@ <<"pool", 1>> :> 2,
     made |-> 2, phrases |-> {"p"}, calls |-> rpcs, holders |-> {}]

KeySetups ==
    {New({"getnewaddress", "keypoolrefill", "backupwallet"}, {"miner"}),
     New({"getnewaddress"}, {"miner", "operation"}),
     New({"getnewaddress", "importaddress", "importprivkey"}, {}),
     New({"z_getnewaddress", "salvage", "getnewaddress"}, {}),
     New({"z_importkey", "importwallet", "salvage"}, {}),
     New({"encryptwallet", "walletpassphrase", "walletpassphrasechange", "getnewaddress",
          "backupwallet"}, {}),
     New({"encryptwallet", "walletpassphrase", "z_getnewaddress", "importprivkey",
          "importaddress"}, {}),
     New({"encryptwallet", "salvage"}, {}),
     Encrypted({"walletpassphrase", "z_getnewaddress", "getnewaddress", "walletlock",
                "importwallet"})}

WalletFile == INSTANCE WalletKeys WITH
    KeyPoolSize <- 1, MaxKeys <- 5, MaxAccounts <- 2,
    Imports <- {<<"t", 90>>, <<"z", 91, 0>>}, Phrases <- {"p", "q"},
    Holders <- {"miner", "operation"}, Setups <- KeySetups,
    wallet <- loaded, todo <- pending, setup <- keysetup

-----------------------------------------------------------------------------
NoSpends ==
    /\ calls = <<>> /\ ops = <<>> /\ setLocked = <<>> /\ txs = <<>>
    /\ pendingSaplingMigrationTxs = <<>> /\ byUser = <<>> /\ freed = <<>>
NoKeys ==
    /\ file = <<>> /\ aside = <<>> /\ loaded = <<>> /\ pending = <<>> /\ held = <<>>
    /\ made = 0 /\ given = <<>> /\ imported = <<>> /\ phrases = <<>>
    /\ backup = <<>> /\ keysetup = <<>>
NoDeposits == Init /\ setup = CHOOSE s \in Setups : TRUE

MCInit ==
    \/ part = "operations" /\ Init /\ NoSpends /\ NoKeys
    \/ part = "spends" /\ Spends!Init /\ NoDeposits /\ NoKeys
    \/ part = "keys" /\ WalletFile!Init /\ NoDeposits /\ NoSpends

MCNext ==
    \/ part = "operations" /\ Next /\ UNCHANGED <<part, spendvars, keyvars>>
    \/ part = "spends" /\ Spends!Next /\ UNCHANGED <<part, vars, keyvars>>
    \/ part = "keys" /\ WalletFile!Next /\ UNCHANGED <<part, vars, spendvars>>

\* The fairness of Privatizer; nothing is assumed of the other parts.
MCSpec ==
    /\ MCInit /\ [][MCNext]_<<part, vars, spendvars, keyvars>>
    /\ WF_vars(part = "operations" /\ RunThread)
    /\ \A w \in Workers : WF_vars(part = "operations" /\ WorkerThread(w))
    /\ WF_vars(part = "operations" /\ EnderThread)
    /\ WF_vars(part = "operations" /\ NewBlock)

-----------------------------------------------------------------------------
(* Every deposit is passed on (see DepositsArrive of Privatizer). *)
DepositsPassedOn ==
    <>[](\/ part # "operations" \/ Settled
         \/ (\E o \in Opids : state_[o] = "FAILED") \/ ender # "none")

(* PaymentsExact and LocksProtect of WalletSpends: a payment is made whole and   *)
(* balances, and what an operation has locked is not spent by another.          *)
PaymentsExact == part = "spends" => Spends!PaymentsExact /\ Spends!LocksProtect

(* Recoverable and BackupCovers of WalletKeys: no crash loses a key the wallet   *)
(* has promised, and a backup serves for the keys of the pool.                  *)
Recoverable == part = "keys" => WalletFile!Recoverable /\ WalletFile!BackupCovers

(* HandedOutOnce of WalletKeys: no key is handed out twice.                     *)
HandedOutOnce == part = "keys" => WalletFile!HandedOutOnce
=============================================================================
