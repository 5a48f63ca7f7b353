--------------------------- MODULE ConsoleProofs ----------------------------
(***************************************************************************)
(* Theorems about two parts of the web console, with nothing in common but *)
(* the provers: its query cache (Console), for any banks, views, mutations *)
(* and overlaps of their calls; and the legs of its form for a transaction *)
(* (LegEditor), for any accounts, texts typed and number of legs.          *)
(***************************************************************************)
EXTENDS Console, LegEditor, Sums, TLAPS, SequenceTheorems

-----------------------------------------------------------------------------
(* What keys are made of. *)
KeyParts ==
  Bank \cup {Id} \cup
    {"participants", "ledgers", "subledgers", "accounts", "balance", "all-accounts", "transactions",
     "transaction", "audit", "deposit-accounts", "holds", "snapshots", "deposit-audit", "schemes",
     "central-bank", "reserves", "mandates", "payments", "cycles", "settlements"}

(* A key stands for itself and those below it. *)
LEMMA Below ==
  ASSUME NEW s \in Seq(KeyParts), NEW t \in Seq(KeyParts)
  PROVE  s \o t \in Seq(KeyParts) /\ IsPrefix(s, s) /\ IsPrefix(s, s \o t)
  <1>1. Len(s) \in Nat /\ Len(t) \in Nat /\ Len(s \o t) = Len(s) + Len(t) /\ s \o t \in Seq(KeyParts)
    BY LenProperties, ConcatProperties
  <1>2. SubSeq(s, 1, Len(s)) = s
    BY SubSeqFull
  <1>3. SubSeq(s \o t, 1, Len(s)) = s
    BY <1>1, <1>2
  <1>4. QED BY <1>1, <1>2, <1>3 DEF IsPrefix

(* The keys of bank b's views are below "participants". *)
LEMMA BankKeys ==
  ASSUME NEW b \in Bank, NEW p \in Seq(KeyParts)
  PROVE  InBank(b, p) \in Seq(KeyParts) /\ IsPrefix(<<"participants">>, InBank(b, p))
  <1>1. <<"participants">> \in Seq(KeyParts) /\ <<b>> \in Seq(KeyParts)
    BY DEF KeyParts
  <1>2. <<b>> \o p \in Seq(KeyParts)
    BY <1>1, ConcatProperties
  <1>3. InBank(b, p) = <<"participants">> \o (<<b>> \o p)
    <2>1. <<"participants", b>> = <<"participants">> \o <<b>>
      BY <1>1
    <2>2. (<<"participants">> \o <<b>>) \o p = <<"participants">> \o (<<b>> \o p)
      BY <1>1, ConcatAssociative
    <2>3. QED BY <2>1, <2>2 DEF InBank
  <1> HIDE DEF InBank
  <1>4. QED BY <1>1, <1>2, <1>3, Below

LEMMA TreeKeys ==
  ASSUME NEW b \in Bank, NEW p \in Seq(KeyParts), NEW r \in Seq(KeyParts)
  PROVE  /\ InBank(b, p) \o r = InBank(b, p \o r)
         /\ p \o r \in Seq(KeyParts)
  <1>1. <<"participants", b>> \in Seq(KeyParts)
    BY DEF KeyParts
  <1>2. QED BY <1>1, ConcatAssociative, ConcatProperties DEF InBank

(* The keys of the queries and of the invalidations are keys, *)
LEMMA Paths ==
  /\ <<>> \in Seq(KeyParts) /\ <<Id>> \in Seq(KeyParts)
  /\ <<"ledgers">> \in Seq(KeyParts) /\ <<Id, "subledgers">> \in Seq(KeyParts)
  /\ <<"subledgers", Id, "accounts">> \in Seq(KeyParts)
  /\ <<"accounts">> \in Seq(KeyParts) /\ <<Id, "balance">> \in Seq(KeyParts)
  /\ <<"all-accounts">> \in Seq(KeyParts)
  /\ <<"transactions">> \in Seq(KeyParts) /\ <<"transaction", Id>> \in Seq(KeyParts)
  /\ <<"audit">> \in Seq(KeyParts) /\ <<"deposit-audit">> \in Seq(KeyParts)
  /\ <<"deposit-accounts">> \in Seq(KeyParts)
  /\ <<Id, "holds">> \in Seq(KeyParts) /\ <<Id, "snapshots">> \in Seq(KeyParts)
  /\ <<"participants">> \in Seq(KeyParts)
  /\ Reserves \in Seq(KeyParts) /\ CentralAudit \in Seq(KeyParts)
  /\ \A b \in Bank : <<b>> \in Seq(KeyParts)
  /\ \A name \in {"mandates", "payments", "cycles", "settlements"} : <<name>> \in Seq(KeyParts)
  BY DEF KeyParts, Reserves, CentralAudit

(* and this is what they stand for.                                         *)
LEMMA KeyPrefixes ==
  /\ \A b \in Bank :
       /\ IsPrefix(LedgerTree(b), LedgerTree(b))
       /\ IsPrefix(LedgerTree(b) \o <<Id, "subledgers">>, LedgerTree(b) \o <<Id, "subledgers">>)
       /\ IsPrefix(InBank(b, <<"subledgers", Id, "accounts">>), InBank(b, <<"subledgers", Id, "accounts">>))
       /\ IsPrefix(InBank(b, <<"accounts">>), InBank(b, <<"accounts", Id, "balance">>))
       /\ IsPrefix(TransactionList(b), TransactionList(b))
       /\ IsPrefix(AuditLog(b), AuditLog(b))
       /\ IsPrefix(DepositAuditLog(b), DepositAuditLog(b))
       /\ IsPrefix(DepositTree(b), DepositTree(b))
       /\ \A r \in {<<Id>>, <<Id, "balance">>, <<Id, "holds">>, <<Id, "snapshots">>} :
            /\ IsPrefix(DepositTree(b), DepositTree(b) \o r)
            /\ IsPrefix(DepositTree(b) \o r, DepositTree(b) \o r)
            /\ IsPrefix(<<"participants">>, DepositTree(b) \o r)
       /\ IsPrefix(Reserves, Reserves \o <<b>>)
       /\ \A key \in {LedgerTree(b), LedgerTree(b) \o <<Id, "subledgers">>,
                       InBank(b, <<"subledgers", Id, "accounts">>), InBank(b, <<"all-accounts">>),
                       InBank(b, <<"accounts", Id, "balance">>), TransactionList(b),
                       InBank(b, <<"transaction", Id>>), AuditLog(b), DepositTree(b),
                       DepositAuditLog(b), InBank(b, <<>>)} :
            IsPrefix(<<"participants">>, key)
  /\ IsPrefix(<<"participants">>, <<"participants">>)
  /\ IsPrefix(Reserves, Reserves) /\ IsPrefix(CentralAudit, CentralAudit)
  /\ \A name \in {"mandates", "payments", "cycles", "settlements"} :
       IsPrefix(<<name>>, <<name>>) /\ IsPrefix(<<name>>, <<name, Id>>)
  <1>1. ASSUME NEW b \in Bank, NEW p \in Seq(KeyParts)
        PROVE  /\ IsPrefix(InBank(b, p), InBank(b, p)) /\ IsPrefix(<<"participants">>, InBank(b, p))
               /\ \A r \in Seq(KeyParts) :
                    /\ IsPrefix(InBank(b, p), InBank(b, p) \o r)
                    /\ IsPrefix(InBank(b, p), InBank(b, p \o r))
                    /\ IsPrefix(InBank(b, p) \o r, InBank(b, p) \o r)
                    /\ IsPrefix(<<"participants">>, InBank(b, p) \o r)
    <2>1. InBank(b, p) \in Seq(KeyParts)
      BY BankKeys
    <2>2. IsPrefix(InBank(b, p), InBank(b, p)) /\ IsPrefix(<<"participants">>, InBank(b, p))
      BY <2>1, BankKeys, Below, Paths
    <2>3. ASSUME NEW r \in Seq(KeyParts)
          PROVE  /\ IsPrefix(InBank(b, p), InBank(b, p) \o r)
                 /\ IsPrefix(InBank(b, p), InBank(b, p \o r))
                 /\ IsPrefix(InBank(b, p) \o r, InBank(b, p) \o r)
                 /\ IsPrefix(<<"participants">>, InBank(b, p) \o r)
      <3>1. InBank(b, p) \o r = InBank(b, p \o r) /\ p \o r \in Seq(KeyParts)
        BY TreeKeys
      <3>2. IsPrefix(InBank(b, p), InBank(b, p) \o r) /\ InBank(b, p) \o r \in Seq(KeyParts)
        BY <2>1, Below
      <3>3. IsPrefix(InBank(b, p) \o r, InBank(b, p) \o r)
        BY <3>2, Below, Paths
      <3>4. IsPrefix(<<"participants">>, InBank(b, p \o r))
        BY <3>1, BankKeys
      <3>5. QED BY <3>1, <3>2, <3>3, <3>4
    <2>4. QED BY <2>2, <2>3
  <1>2. ASSUME NEW b \in Bank, NEW r \in {<<Id>>, <<Id, "balance">>, <<Id, "holds">>, <<Id, "snapshots">>}
        PROVE  /\ IsPrefix(DepositTree(b), DepositTree(b) \o r)
               /\ IsPrefix(DepositTree(b) \o r, DepositTree(b) \o r)
               /\ IsPrefix(<<"participants">>, DepositTree(b) \o r)
    BY <1>1, Paths DEF DepositTree
  <1>3. ASSUME NEW b \in Bank
        PROVE  IsPrefix(InBank(b, <<"accounts">>), InBank(b, <<"accounts", Id, "balance">>))
    <2>1. <<"accounts", Id, "balance">> = <<"accounts">> \o <<Id, "balance">>
      OBVIOUS
    <2>2. QED BY <1>1, <2>1, Paths
  <1>4. ASSUME NEW b \in Bank PROVE IsPrefix(Reserves, Reserves \o <<b>>)
    BY Below, Paths
  <1>5. ASSUME NEW name \in {"mandates", "payments", "cycles", "settlements"}
        PROVE  IsPrefix(<<name>>, <<name>>) /\ IsPrefix(<<name>>, <<name, Id>>)
    <2>1. <<name, Id>> = <<name>> \o <<Id>>
      OBVIOUS
    <2>2. PICK s : s = <<name>>
      OBVIOUS
    <2>3. s \in Seq(KeyParts) /\ <<Id>> \in Seq(KeyParts)
      BY <2>2, Paths
    <2>4. IsPrefix(s, s) /\ IsPrefix(s, s \o <<Id>>)
      BY <2>3, Below
    <2>5. QED BY <2>1, <2>2, <2>4
  <1>6. /\ IsPrefix(<<"participants">>, <<"participants">>)
        /\ IsPrefix(Reserves, Reserves) /\ IsPrefix(CentralAudit, CentralAudit)
    BY Below, Paths
  <1>7. ASSUME NEW b \in Bank
        PROVE  /\ IsPrefix(LedgerTree(b), LedgerTree(b))
               /\ IsPrefix(TransactionList(b), TransactionList(b))
               /\ IsPrefix(AuditLog(b), AuditLog(b))
               /\ IsPrefix(DepositAuditLog(b), DepositAuditLog(b))
               /\ IsPrefix(DepositTree(b), DepositTree(b))
               /\ IsPrefix(InBank(b, <<"subledgers", Id, "accounts">>), InBank(b, <<"subledgers", Id, "accounts">>))
               /\ IsPrefix(LedgerTree(b) \o <<Id, "subledgers">>, LedgerTree(b) \o <<Id, "subledgers">>)
    BY <1>1, Paths DEF LedgerTree, TransactionList, AuditLog, DepositAuditLog, DepositTree
  <1>8. ASSUME NEW b \in Bank
        PROVE  /\ IsPrefix(<<"participants">>, LedgerTree(b))
               /\ IsPrefix(<<"participants">>, LedgerTree(b) \o <<Id, "subledgers">>)
               /\ IsPrefix(<<"participants">>, InBank(b, <<"subledgers", Id, "accounts">>))
               /\ IsPrefix(<<"participants">>, InBank(b, <<"all-accounts">>))
               /\ IsPrefix(<<"participants">>, InBank(b, <<"accounts", Id, "balance">>))
               /\ IsPrefix(<<"participants">>, TransactionList(b))
               /\ IsPrefix(<<"participants">>, InBank(b, <<"transaction", Id>>))
               /\ IsPrefix(<<"participants">>, AuditLog(b))
               /\ IsPrefix(<<"participants">>, DepositTree(b))
               /\ IsPrefix(<<"participants">>, DepositAuditLog(b))
               /\ IsPrefix(<<"participants">>, InBank(b, <<>>))
    <2>1. <<"accounts", Id, "balance">> \in Seq(KeyParts)
      BY DEF KeyParts
    <2>2. QED BY <1>1, <2>1, Paths DEF LedgerTree, TransactionList, AuditLog, DepositAuditLog, DepositTree
  <1>9. QED BY <1>2, <1>3, <1>4, <1>5, <1>6, <1>7, <1>8

-----------------------------------------------------------------------------
(* The views whose answer depends on a part of the server's state, part[1]  *)
(* being whose it is and part[2] what: first a bank's,                      *)
ReadOfLedger(q, b, kind) ==
  \/ kind = "ledgers" /\ q.hook = "useLedgers" /\ q.key = LedgerTree(b)
  \/ kind = "subledgers" /\ q.hook = "useSubledgers" /\ q.key = LedgerTree(b) \o <<Id, "subledgers">>
  \/ kind = "accounts" /\ q.hook = "useAccounts" /\ q.key = InBank(b, <<"subledgers", Id, "accounts">>)
  \/ kind = "accounts" /\ q.hook = "useAllAccounts" /\ q.key = InBank(b, <<"all-accounts">>)
  \/ kind = "journal" /\ q.hook = "useAccountBalance" /\ q.key = InBank(b, <<"accounts", Id, "balance">>)
  \/ kind = "journal" /\ q.hook = "useTransactions" /\ q.key = TransactionList(b)
  \/ kind = "reversed" /\ q.hook = "useTransactions" /\ q.key = TransactionList(b)
  \/ kind = "reversed" /\ q.hook = "useTransaction" /\ q.key = InBank(b, <<"transaction", Id>>)
  \/ kind = "audit" /\ q.hook = "useLedgerAudit" /\ q.key = AuditLog(b)

ReadOfRegister(q, b, kind) ==
  \/ kind = "deposits" /\ q.key = DepositTree(b)
  \/ kind = "deposits" /\ q.key = DepositTree(b) \o <<Id>>
  \/ kind = "journal" /\ q.hook = "useDepositBalance" /\ q.key = DepositTree(b) \o <<Id, "balance">>
  \/ kind = "holds" /\ q.key = DepositTree(b) \o <<Id, "balance">>
  \/ kind = "holds" /\ q.key = DepositTree(b) \o <<Id, "holds">>
  \/ kind = "snapshots" /\ q.key = DepositTree(b) \o <<Id, "snapshots">>
  \/ kind = "depositAudit" /\ q.key = DepositAuditLog(b)

(* then the network's.                                                      *)
ReadOfNetwork(q, kind) ==
  \/ kind = "participants" /\ q.key = <<"participants">>
  \/ kind = "participants" /\ \E b \in Bank : q.key = InBank(b, <<>>)
  \/ kind \in {"participants", "reserves"} /\ q.hook = "useReserves" /\ q.key = Reserves
  \/ kind = "reserves" /\ \E b \in Bank : q.key = Reserves \o <<b>>
  \/ kind = "centralAudit" /\ q.hook = "useCentralBankAudit" /\ q.key = CentralAudit
  \/ kind \in {"mandates", "payments", "cycles", "settlements"} /\ q.key \in {<<kind>>, <<kind, Id>>}

ReadOf(q, part) ==
  \/ part[1] \in Bank /\ (ReadOfLedger(q, part[1], part[2]) \/ ReadOfRegister(q, part[1], part[2]))
  \/ part[1] = "network" /\ ReadOfNetwork(q, part[2])

LEMMA QueryFields ==
  ASSUME NEW hook, NEW key, NEW reads
  PROVE  /\ Query(hook, key, reads).hook = hook /\ Query(hook, key, reads).key = key
         /\ Query(hook, key, reads).reads = reads
  BY DEF Query

LEMMA QueryReads ==
  ASSUME NEW q, NEW hook, NEW key, NEW owner, NEW kinds, q = Query(hook, key, Of(owner, kinds)),
         NEW part \in q.reads
  PROVE  q.hook = hook /\ q.key = key /\ part[1] = owner /\ part[2] \in kinds
  <1>1. q.hook = hook /\ q.key = key /\ q.reads = Of(owner, kinds)
    BY QueryFields
  <1>2. QED BY <1>1 DEF Of

LEMMA Readers ==
  ASSUME NEW q \in Queries, NEW part \in q.reads
  PROVE  ReadOf(q, part)
  <1>1. ASSUME NEW b \in Bank, q \in LedgerQueries(b)
        PROVE  part[1] = b /\ ReadOfLedger(q, b, part[2])
    <2> DEFINE api == LedgerReads(b)
    <2>1. /\ api.listLedgers = Of(b, {"ledgers"}) /\ api.listSubledgers = Of(b, {"subledgers"})
          /\ api.listAccounts = Of(b, {"accounts"}) /\ api.getBookBalance = Of(b, {"journal"})
          /\ api.listTransactions = Of(b, {"journal", "reversed"})
          /\ api.getTransaction = Of(b, {"reversed"}) /\ api.ledgerAudit = Of(b, {"audit"})
          /\ GetAllAccounts(b) = Of(b, {"accounts"})
      BY DEF LedgerReads, GetAllAccounts
    <2>2. \/ q = Query("useLedgers", LedgerTree(b), api.listLedgers)
          \/ q = Query("useSubledgers", LedgerTree(b) \o <<Id, "subledgers">>, api.listSubledgers)
          \/ q = Query("useAccounts", InBank(b, <<"subledgers", Id, "accounts">>), api.listAccounts)
          \/ q = Query("useAccountBalance", InBank(b, <<"accounts", Id, "balance">>), api.getBookBalance)
          \/ q = Query("useAllAccounts", InBank(b, <<"all-accounts">>), GetAllAccounts(b))
          \/ q = Query("useTransactions", TransactionList(b), api.listTransactions)
          \/ q = Query("useTransaction", InBank(b, <<"transaction", Id>>), api.getTransaction)
          \/ q = Query("useLedgerAudit", AuditLog(b), api.ledgerAudit)
      BY <1>1, Zenon DEF LedgerQueries
    <2>3. \A kinds : part \in Of(b, kinds) => part[1] = b /\ part[2] \in kinds
      BY DEF Of
    <2> HIDE DEF api
    <2>4. CASE q = Query("useLedgers", LedgerTree(b), api.listLedgers)
      BY <2>1, <2>3, <2>4, QueryFields DEF ReadOfLedger
    <2>5. CASE q = Query("useSubledgers", LedgerTree(b) \o <<Id, "subledgers">>, api.listSubledgers)
      <3>1. q = Query("useSubledgers", LedgerTree(b) \o <<Id, "subledgers">>, Of(b, {"subledgers"}))
        BY <2>1, <2>5
      <3>2. PICK key : key = LedgerTree(b) \o <<Id, "subledgers">>
        OBVIOUS
      <3>3. q = Query("useSubledgers", key, Of(b, {"subledgers"}))
        BY <3>1, <3>2
      <3>4. q.hook = "useSubledgers" /\ q.key = key /\ part[1] = b /\ part[2] \in {"subledgers"}
        BY <3>3, QueryReads
      <3>5. q.key = LedgerTree(b) \o <<Id, "subledgers">>
        BY <3>2, <3>4
      <3>6. QED BY <3>4, <3>5, Zenon DEF ReadOfLedger
    <2>6. CASE q = Query("useAccounts", InBank(b, <<"subledgers", Id, "accounts">>), api.listAccounts)
      BY <2>1, <2>3, <2>6, QueryFields DEF ReadOfLedger
    <2>7. CASE q = Query("useAccountBalance", InBank(b, <<"accounts", Id, "balance">>), api.getBookBalance)
      BY <2>1, <2>3, <2>7, QueryFields DEF ReadOfLedger
    <2>8. CASE q = Query("useAllAccounts", InBank(b, <<"all-accounts">>), GetAllAccounts(b))
      BY <2>1, <2>3, <2>8, QueryFields DEF ReadOfLedger
    <2>9. CASE q = Query("useTransactions", TransactionList(b), api.listTransactions)
      BY <2>1, <2>3, <2>9, QueryFields DEF ReadOfLedger
    <2>10. CASE q = Query("useTransaction", InBank(b, <<"transaction", Id>>), api.getTransaction)
      BY <2>1, <2>3, <2>10, QueryFields DEF ReadOfLedger
    <2>11. CASE q = Query("useLedgerAudit", AuditLog(b), api.ledgerAudit)
      BY <2>1, <2>3, <2>11, QueryFields DEF ReadOfLedger
    <2>12. QED BY <2>2, <2>4, <2>5, <2>6, <2>7, <2>8, <2>9, <2>10, <2>11
  <1>2. ASSUME NEW b \in Bank, q \in DepositQueries(b)
        PROVE  part[1] = b /\ ReadOfRegister(q, b, part[2])
    <2> DEFINE api == DepositReads(b)
    <2>1. /\ api.listDepositAccounts = Of(b, {"deposits"}) /\ api.getDepositAccount = Of(b, {"deposits"})
          /\ api.getDepositBalance = Of(b, {"journal", "holds"}) /\ api.listHolds = Of(b, {"holds"})
          /\ api.listSnapshots = Of(b, {"snapshots"}) /\ api.depositAudit = Of(b, {"depositAudit"})
      BY DEF DepositReads
    <2>2. \/ q = Query("useDepositAccounts", DepositTree(b), api.listDepositAccounts)
          \/ q = Query("useDepositAccount", DepositTree(b) \o <<Id>>, api.getDepositAccount)
          \/ q = Query("useDepositBalance", DepositTree(b) \o <<Id, "balance">>, api.getDepositBalance)
          \/ q = Query("useHolds", DepositTree(b) \o <<Id, "holds">>, api.listHolds)
          \/ q = Query("useSnapshots", DepositTree(b) \o <<Id, "snapshots">>, api.listSnapshots)
          \/ q = Query("useDepositAudit", DepositAuditLog(b), api.depositAudit)
      BY <1>2, Zenon DEF DepositQueries
    <2>3. \A kinds : part \in Of(b, kinds) => part[1] = b /\ part[2] \in kinds
      BY DEF Of
    <2> HIDE DEF api
    <2>4. CASE q = Query("useDepositAccounts", DepositTree(b), api.listDepositAccounts)
      BY <2>1, <2>3, <2>4, QueryFields DEF ReadOfRegister
    <2>5. CASE q = Query("useDepositAccount", DepositTree(b) \o <<Id>>, api.getDepositAccount)
      <3>1. q = Query("useDepositAccount", DepositTree(b) \o <<Id>>, Of(b, {"deposits"}))
        BY <2>1, <2>5
      <3>2. PICK key : key = DepositTree(b) \o <<Id>>
        OBVIOUS
      <3>3. q = Query("useDepositAccount", key, Of(b, {"deposits"}))
        BY <3>1, <3>2
      <3>4. q.hook = "useDepositAccount" /\ q.key = key /\ part[1] = b /\ part[2] \in {"deposits"}
        BY <3>3, QueryReads
      <3>5. q.key = DepositTree(b) \o <<Id>>
        BY <3>2, <3>4
      <3>6. QED BY <3>4, <3>5, Zenon DEF ReadOfRegister
    <2>6. CASE q = Query("useDepositBalance", DepositTree(b) \o <<Id, "balance">>, api.getDepositBalance)
      <3>1. q = Query("useDepositBalance", DepositTree(b) \o <<Id, "balance">>, Of(b, {"journal", "holds"}))
        BY <2>1, <2>6
      <3>2. PICK key : key = DepositTree(b) \o <<Id, "balance">>
        OBVIOUS
      <3>3. q = Query("useDepositBalance", key, Of(b, {"journal", "holds"}))
        BY <3>1, <3>2
      <3>4. q.hook = "useDepositBalance" /\ q.key = key /\ part[1] = b /\ part[2] \in {"journal", "holds"}
        BY <3>3, QueryReads
      <3>5. q.key = DepositTree(b) \o <<Id, "balance">>
        BY <3>2, <3>4
      <3>6. QED BY <3>4, <3>5, Zenon DEF ReadOfRegister
    <2>7. CASE q = Query("useHolds", DepositTree(b) \o <<Id, "holds">>, api.listHolds)
      <3>1. q = Query("useHolds", DepositTree(b) \o <<Id, "holds">>, Of(b, {"holds"}))
        BY <2>1, <2>7
      <3>2. PICK key : key = DepositTree(b) \o <<Id, "holds">>
        OBVIOUS
      <3>3. q = Query("useHolds", key, Of(b, {"holds"}))
        BY <3>1, <3>2
      <3>4. q.hook = "useHolds" /\ q.key = key /\ part[1] = b /\ part[2] \in {"holds"}
        BY <3>3, QueryReads
      <3>5. q.key = DepositTree(b) \o <<Id, "holds">>
        BY <3>2, <3>4
      <3>6. QED BY <3>4, <3>5, Zenon DEF ReadOfRegister
    <2>8. CASE q = Query("useSnapshots", DepositTree(b) \o <<Id, "snapshots">>, api.listSnapshots)
      <3>1. q = Query("useSnapshots", DepositTree(b) \o <<Id, "snapshots">>, Of(b, {"snapshots"}))
        BY <2>1, <2>8
      <3>2. PICK key : key = DepositTree(b) \o <<Id, "snapshots">>
        OBVIOUS
      <3>3. q = Query("useSnapshots", key, Of(b, {"snapshots"}))
        BY <3>1, <3>2
      <3>4. q.hook = "useSnapshots" /\ q.key = key /\ part[1] = b /\ part[2] \in {"snapshots"}
        BY <3>3, QueryReads
      <3>5. q.key = DepositTree(b) \o <<Id, "snapshots">>
        BY <3>2, <3>4
      <3>6. QED BY <3>4, <3>5, Zenon DEF ReadOfRegister
    <2>9. CASE q = Query("useDepositAudit", DepositAuditLog(b), api.depositAudit)
      BY <2>1, <2>3, <2>9, QueryFields DEF ReadOfRegister
    <2>10. QED BY <2>2, <2>4, <2>5, <2>6, <2>7, <2>8, <2>9
  <1>3. \A kinds : part \in Network(kinds) => part[1] = "network" /\ part[2] \in kinds
    BY DEF Network
  <1>4. CASE q \in ParticipantQueries
    <2> DEFINE api == ParticipantReads
    <2>1. /\ api.listParticipants = Network({"participants"})
          /\ api.getParticipant = Network({"participants"}) /\ api.listSchemes = {}
          /\ api.listReserves = Network({"participants", "reserves"})
          /\ api.getReserve = Network({"reserves"}) /\ api.centralBankAudit = Network({"centralAudit"})
      BY DEF ParticipantReads
    <2>2. \/ q = Query("useParticipants", <<"participants">>, api.listParticipants)
          \/ q = Query("useSchemes", <<"schemes">>, api.listSchemes)
          \/ q = Query("useReserves", Reserves, api.listReserves)
          \/ q = Query("useCentralBankAudit", CentralAudit, api.centralBankAudit)
          \/ \E b \in Bank : q = Query("useParticipant", InBank(b, <<>>), api.getParticipant)
          \/ \E b \in Bank : q = Query("useReserve", Reserves \o <<b>>, api.getReserve)
      BY <1>4, Zenon DEF ParticipantQueries
    <2> HIDE DEF api
    <2>3. CASE q = Query("useParticipants", <<"participants">>, api.listParticipants)
      BY <1>3, <2>1, <2>3, QueryFields DEF ReadOf, ReadOfNetwork
    <2>4. CASE q = Query("useSchemes", <<"schemes">>, api.listSchemes)
      BY <2>1, <2>4, QueryFields
    <2>5. CASE q = Query("useReserves", Reserves, api.listReserves)
      BY <1>3, <2>1, <2>5, QueryFields DEF ReadOf, ReadOfNetwork
    <2>6. CASE q = Query("useCentralBankAudit", CentralAudit, api.centralBankAudit)
      BY <1>3, <2>1, <2>6, QueryFields DEF ReadOf, ReadOfNetwork
    <2>7. ASSUME NEW b \in Bank, q = Query("useParticipant", InBank(b, <<>>), api.getParticipant)
          PROVE  ReadOf(q, part)
      BY <1>3, <2>1, <2>7, QueryFields DEF ReadOf, ReadOfNetwork
    <2>8. ASSUME NEW b \in Bank, q = Query("useReserve", Reserves \o <<b>>, api.getReserve)
          PROVE  ReadOf(q, part)
      <3>1. q = Query("useReserve", Reserves \o <<b>>, Of("network", {"reserves"}))
        BY <2>1, <2>8 DEF Network, Of
      <3>2. PICK key : key = Reserves \o <<b>>
        OBVIOUS
      <3>3. q = Query("useReserve", key, Of("network", {"reserves"}))
        BY <3>1, <3>2
      <3>4. q.key = key /\ part[1] = "network" /\ part[2] = "reserves"
        BY <3>3, QueryReads
      <3>5. q.key = Reserves \o <<b>>
        BY <3>2, <3>4
      <3>6. QED BY <3>4, <3>5, Zenon DEF ReadOf, ReadOfNetwork
    <2>9. QED BY <2>2, <2>3, <2>4, <2>5, <2>6, <2>7, <2>8
  <1>5. CASE q \in PaymentQueries
    <2> DEFINE api == PaymentReads
               names == {"mandates", "payments", "cycles", "settlements"}
    <2>1. \A name \in names : api[name] = Network({name})
      BY DEF PaymentReads
    <2>2. \E name \in names : \E hook :
            q = Query(hook, <<name>>, api[name]) \/ q = Query(hook, <<name, Id>>, api[name])
      <3>1. \/ q \in {Query("useMandates", <<"mandates">>, api["mandates"]),
                      Query("useMandate", <<"mandates", Id>>, api["mandates"])}
            \/ q \in {Query("usePayments", <<"payments">>, api["payments"]),
                      Query("usePayment", <<"payments", Id>>, api["payments"])}
            \/ q \in {Query("useCycles", <<"cycles">>, api["cycles"]),
                      Query("useCycle", <<"cycles", Id>>, api["cycles"])}
            \/ q \in {Query("useSettlements", <<"settlements">>, api["settlements"]),
                      Query("useSettlement", <<"settlements", Id>>, api["settlements"])}
        BY <1>5, Zenon DEF PaymentQueries
      <3> HIDE DEF api
      <3>2. QED BY <3>1, Zenon
    <2> HIDE DEF api
    <2>3. PICK name \in names :
            \E hook : q = Query(hook, <<name>>, api[name]) \/ q = Query(hook, <<name, Id>>, api[name])
      BY <2>2
    <2>4. (q.key = <<name>> \/ q.key = <<name, Id>>) /\ q.reads = Network({name})
      <3>1. PICK hook : q = Query(hook, <<name>>, api[name]) \/ q = Query(hook, <<name, Id>>, api[name])
        BY <2>3
      <3>2. api[name] = Network({name})
        BY <2>1
      <3>3. CASE q = Query(hook, <<name>>, api[name])
        BY <3>2, <3>3, QueryFields
      <3>4. CASE q = Query(hook, <<name, Id>>, api[name])
        BY <3>2, <3>4, QueryFields
      <3>5. QED BY <3>1, <3>3, <3>4
    <2>5. part[1] = "network" /\ part[2] = name
      BY <1>3, <2>4
    <2>6. part[2] \in names /\ q.key \in {<<part[2]>>, <<part[2], Id>>}
      BY <2>4, <2>5
    <2>7. ReadOfNetwork(q, part[2])
      BY <2>6, Zenon DEF ReadOfNetwork
    <2>8. QED BY <2>5, <2>7 DEF ReadOf
  <1>6. \/ \E b \in Bank : q \in LedgerQueries(b) \/ q \in DepositQueries(b)
        \/ q \in ParticipantQueries \/ q \in PaymentQueries
    <2>1. q \in UNION {LedgerQueries(b) \cup DepositQueries(b) : b \in Bank}
          \/ q \in ParticipantQueries \/ q \in PaymentQueries
      <3> DEFINE ofBanks == UNION {LedgerQueries(b) \cup DepositQueries(b) : b \in Bank}
      <3>1. q \in ofBanks \cup ParticipantQueries \cup PaymentQueries
        BY Zenon DEF Queries
      <3> HIDE DEF ofBanks
      <3>2. q \in ofBanks \/ q \in ParticipantQueries \/ q \in PaymentQueries
        BY <3>1
      <3>3. QED BY <3>2 DEF ofBanks
    <2>2. CASE q \in UNION {LedgerQueries(b) \cup DepositQueries(b) : b \in Bank}
      <3>1. PICK b \in Bank : q \in LedgerQueries(b) \cup DepositQueries(b)
        BY <2>2, Zenon
      <3>2. QED BY <3>1
    <2>3. QED BY <2>1, <2>2
  <1>7. ASSUME NEW b \in Bank, q \in LedgerQueries(b) \/ q \in DepositQueries(b)
        PROVE  ReadOf(q, part)
    <2>1. part[1] = b /\ (ReadOfLedger(q, b, part[2]) \/ ReadOfRegister(q, b, part[2]))
      BY <1>1, <1>2, <1>7
    <2> HIDE DEF ReadOfLedger, ReadOfRegister
    <2>2. QED BY <2>1 DEF ReadOf
  <1>8. QED BY <1>4, <1>5, <1>6, <1>7


-----------------------------------------------------------------------------
(* Which keys reach the views of each part of the server's state. *)
Reaches(key, q) == IsPrefix(key, q.key)

SubledgerTree(b) == LedgerTree(b) \o <<Id, "subledgers">>
SubledgerAccounts(b) == InBank(b, <<"subledgers", Id, "accounts">>)
AccountTree(b) == InBank(b, <<"accounts">>)
SnapshotTree(b) == DepositTree(b) \o <<Id, "snapshots">>

BankKinds ==
  {"ledgers", "subledgers", "accounts", "journal", "reversed", "audit", "deposits", "holds",
   "snapshots", "depositAudit"}

LEMMA BankViews ==
  ASSUME NEW q \in Queries, NEW b \in Bank, NEW kind \in BankKinds, <<b, kind>> \in q.reads
  PROVE  /\ Reaches(<<"participants">>, q)
         /\ kind = "ledgers" => Reaches(LedgerTree(b), q)
         /\ kind = "subledgers" => Reaches(SubledgerTree(b), q)
         /\ kind = "accounts" => \/ q.hook = "useAllAccounts"
                                 \/ q.hook = "useAccounts" /\ Reaches(SubledgerAccounts(b), q)
         /\ kind = "journal" => \/ q.hook = "useAccountBalance" /\ Reaches(AccountTree(b), q)
                                \/ q.hook = "useTransactions" /\ Reaches(TransactionList(b), q)
                                \/ q.hook = "useDepositBalance" /\ Reaches(DepositTree(b), q)
         /\ kind = "reversed" => \/ q.hook = "useTransaction"
                                 \/ Reaches(TransactionList(b), q)
         /\ kind = "audit" => q.hook = "useLedgerAudit" /\ Reaches(AuditLog(b), q)
         /\ kind \in {"deposits", "holds", "snapshots"} => Reaches(DepositTree(b), q)
         /\ kind = "snapshots" => Reaches(SnapshotTree(b), q)
         /\ kind = "depositAudit" => Reaches(DepositAuditLog(b), q)
  <1>1. ReadOf(q, <<b, kind>>)
    BY Readers
  <1>2. ~ReadOfNetwork(q, kind)
    BY DEF BankKinds, ReadOfNetwork
  <1>3. ReadOfLedger(q, b, kind) \/ ReadOfRegister(q, b, kind)
    <2> HIDE DEF ReadOfLedger, ReadOfRegister, ReadOfNetwork
    <2>1. QED BY <1>1, <1>2 DEF ReadOf
  <1>4. CASE ReadOfLedger(q, b, kind)
    <2>1. CASE kind = "ledgers" /\ q.hook = "useLedgers" /\ q.key = LedgerTree(b)
      BY <2>1, KeyPrefixes DEF Reaches
    <2>2. CASE kind = "subledgers" /\ q.hook = "useSubledgers" /\ q.key = SubledgerTree(b)
      BY <2>2, KeyPrefixes DEF Reaches, SubledgerTree
    <2>3. CASE kind = "accounts" /\ q.hook = "useAccounts" /\ q.key = SubledgerAccounts(b)
      BY <2>3, KeyPrefixes DEF Reaches, SubledgerAccounts
    <2>4. CASE kind = "accounts" /\ q.hook = "useAllAccounts" /\ q.key = InBank(b, <<"all-accounts">>)
      BY <2>4, KeyPrefixes DEF Reaches
    <2>5. CASE kind = "journal" /\ q.hook = "useAccountBalance" /\ q.key = InBank(b, <<"accounts", Id, "balance">>)
      BY <2>5, KeyPrefixes DEF Reaches, AccountTree
    <2>6. CASE kind \in {"journal", "reversed"} /\ q.hook = "useTransactions" /\ q.key = TransactionList(b)
      BY <2>6, KeyPrefixes DEF Reaches
    <2>7. CASE kind = "reversed" /\ q.hook = "useTransaction" /\ q.key = InBank(b, <<"transaction", Id>>)
      BY <2>7, KeyPrefixes DEF Reaches
    <2>8. CASE kind = "audit" /\ q.hook = "useLedgerAudit" /\ q.key = AuditLog(b)
      BY <2>8, KeyPrefixes DEF Reaches
    <2>9. QED BY <1>4, <2>1, <2>2, <2>3, <2>4, <2>5, <2>6, <2>7, <2>8, Zenon
          DEF ReadOfLedger, SubledgerTree, SubledgerAccounts
  <1>5. CASE ReadOfRegister(q, b, kind)
    <2>1. CASE kind = "deposits" /\ (q.key = DepositTree(b) \/ q.key = DepositTree(b) \o <<Id>>)
      BY <2>1, KeyPrefixes DEF Reaches
    <2>2. CASE kind \in {"journal", "holds"} /\ q.key = DepositTree(b) \o <<Id, "balance">>
               /\ (kind = "journal" => q.hook = "useDepositBalance")
      BY <2>2, KeyPrefixes DEF Reaches
    <2>3. CASE kind = "holds" /\ q.key = DepositTree(b) \o <<Id, "holds">>
      BY <2>3, KeyPrefixes DEF Reaches
    <2>4. CASE kind = "snapshots" /\ q.key = SnapshotTree(b)
      BY <2>4, KeyPrefixes DEF Reaches, SnapshotTree
    <2>5. CASE kind = "depositAudit" /\ q.key = DepositAuditLog(b)
      BY <2>5, KeyPrefixes DEF Reaches
    <2>6. "holds" # "journal"
      OBVIOUS
    <2>7. QED BY <1>5, <2>1, <2>2, <2>3, <2>4, <2>5, <2>6, Zenon DEF ReadOfRegister, SnapshotTree
  <1>6. QED BY <1>3, <1>4, <1>5

NetworkKinds ==
  {"participants", "reserves", "centralAudit", "mandates", "payments", "cycles", "settlements"}

LEMMA NetworkViews ==
  ASSUME NEW q \in Queries, NEW kind \in NetworkKinds, <<"network", kind>> \in q.reads
  PROVE  /\ kind = "participants" => q.hook = "useReserves" \/ Reaches(<<"participants">>, q)
         /\ kind = "reserves" => Reaches(Reserves, q)
         /\ kind = "centralAudit" => q.hook = "useCentralBankAudit" /\ Reaches(CentralAudit, q)
         /\ kind \in {"mandates", "payments", "cycles", "settlements"} => Reaches(<<kind>>, q)
  <1>1. ReadOf(q, <<"network", kind>>)
    BY Readers
  <1>2. \A b : ~ReadOfLedger(q, b, kind) /\ ~ReadOfRegister(q, b, kind)
    BY DEF NetworkKinds, ReadOfLedger, ReadOfRegister
  <1>3. ReadOfNetwork(q, kind)
    <2> HIDE DEF ReadOfLedger, ReadOfRegister, ReadOfNetwork
    <2>1. QED BY <1>1, <1>2 DEF ReadOf
  <1>4. CASE kind = "participants" /\ (q.key = <<"participants">> \/ \E b \in Bank : q.key = InBank(b, <<>>))
    BY <1>4, KeyPrefixes DEF Reaches
  <1>5. CASE kind \in {"participants", "reserves"} /\ q.hook = "useReserves" /\ q.key = Reserves
    BY <1>5, KeyPrefixes DEF Reaches
  <1>6. CASE kind = "reserves" /\ \E b \in Bank : q.key = Reserves \o <<b>>
    BY <1>6, KeyPrefixes DEF Reaches
  <1>7. CASE kind = "centralAudit" /\ q.hook = "useCentralBankAudit" /\ q.key = CentralAudit
    BY <1>7, KeyPrefixes DEF Reaches
  <1>8. CASE /\ kind \in {"mandates", "payments", "cycles", "settlements"}
             /\ q.key = <<kind>> \/ q.key = <<kind, Id>>
    BY <1>8, KeyPrefixes DEF Reaches
  <1>9. QED BY <1>3, <1>4, <1>5, <1>6, <1>7, <1>8, Zenon DEF ReadOfNetwork


-----------------------------------------------------------------------------
(* A mutation is confirmed to a view by a key it invalidates, or it is one  *)
(* of those the table names.                                                *)
Covers(m, q) == Matches(m, q) \/ m.hook \in OverlookedBy(q.hook)

LEMMA CoversByKey ==
  ASSUME NEW m, NEW q, NEW key \in m.invalidates, Reaches(key, q)
  PROVE  Covers(m, q)
  BY DEF Covers, Matches, Reaches

LEMMA Table ==
  /\ {"useCreateLedger", "useCreateSubledger", "useCreateAccount", "useOpenDepositAccount",
      "useFundDeposit"} \subseteq OverlookedBy("useLedgerAudit")
  /\ {"useCreateAccount", "useOpenDepositAccount"} \subseteq OverlookedBy("useAllAccounts")
  /\ "useOpenDepositAccount" \in OverlookedBy("useAccounts")
  /\ "useFundDeposit" \in OverlookedBy("useAccountBalance")
  /\ "useFundDeposit" \in OverlookedBy("useTransactions")
  /\ "useReverseTransaction" \in OverlookedBy("useTransaction")
  /\ {"usePostTransaction", "useReverseTransaction"} \subseteq OverlookedBy("useDepositBalance")
  /\ "useAddParticipant" \in OverlookedBy("useReserves")
  /\ "useAddParticipant" \in OverlookedBy("useCentralBankAudit")
  BY DEF OverlookedBy, Overlooked

LEMMA MutationFields ==
  ASSUME NEW hook, NEW changes, NEW keys, NEW m, m = Mutation(hook, changes, keys)
  PROVE  m.hook = hook /\ m.changes = changes /\ m.invalidates = keys
  BY DEF Mutation

LEMMA PartOf ==
  ASSUME NEW owner, NEW kinds, NEW part \in Of(owner, kinds)
  PROVE  \E kind \in kinds : part = <<owner, kind>>
  BY DEF Of

(* So it is with the ledger's mutations, *)
LEMMA LedgerCovers ==
  ASSUME NEW b \in Bank, NEW m \in LedgerMutations(b), NEW q \in Queries,
         NEW part \in m.changes, part \in q.reads
  PROVE  Covers(m, q)
  <1> DEFINE api == LedgerChanges(b)
  <1>1. /\ api.createLedger = Of(b, {"ledgers", "audit"})
        /\ api.createSubledger = Of(b, {"subledgers", "audit"})
        /\ api.createAccount = Of(b, {"accounts", "audit"})
        /\ api.postTransaction = Of(b, {"journal", "audit"})
        /\ api.reverseTransaction = Of(b, {"journal", "reversed", "audit"})
    BY DEF LedgerChanges
  <1>2. \/ m = Mutation("useCreateLedger", api.createLedger, {LedgerTree(b)})
        \/ m = Mutation("useCreateSubledger", api.createSubledger, {SubledgerTree(b)})
        \/ m = Mutation("useCreateAccount", api.createAccount, {SubledgerAccounts(b)})
        \/ m = Mutation("usePostTransaction", api.postTransaction, InvalidateLedger(b))
        \/ m = Mutation("useReverseTransaction", api.reverseTransaction, InvalidateLedger(b))
    BY Zenon DEF LedgerMutations, SubledgerTree, SubledgerAccounts
  <1> HIDE DEF api
  <1>3. InvalidateLedger(b) = {TransactionList(b), AccountTree(b), AuditLog(b)}
    BY DEF InvalidateLedger, AccountTree
  <1>4. CASE m = Mutation("useCreateLedger", api.createLedger, {LedgerTree(b)})
    <2>1. m.hook = "useCreateLedger" /\ m.changes = Of(b, {"ledgers", "audit"}) /\ LedgerTree(b) \in m.invalidates
      BY <1>1, <1>4, MutationFields
    <2>2. PICK kind \in {"ledgers", "audit"} : part = <<b, kind>>
      BY <2>1, PartOf
    <2>3. QED BY <2>1, <2>2, BankViews, CoversByKey, Table DEF BankKinds, Covers
  <1>5. CASE m = Mutation("useCreateSubledger", api.createSubledger, {SubledgerTree(b)})
    <2>1. /\ m.hook = "useCreateSubledger" /\ m.changes = Of(b, {"subledgers", "audit"})
          /\ SubledgerTree(b) \in m.invalidates
      BY <1>1, <1>5, MutationFields
    <2>2. PICK kind \in {"subledgers", "audit"} : part = <<b, kind>>
      BY <2>1, PartOf
    <2>3. QED BY <2>1, <2>2, BankViews, CoversByKey, Table DEF BankKinds, Covers
  <1>6. CASE m = Mutation("useCreateAccount", api.createAccount, {SubledgerAccounts(b)})
    <2>1. /\ m.hook = "useCreateAccount" /\ m.changes = Of(b, {"accounts", "audit"})
          /\ SubledgerAccounts(b) \in m.invalidates
      BY <1>1, <1>6, MutationFields
    <2>2. PICK kind \in {"accounts", "audit"} : part = <<b, kind>>
      BY <2>1, PartOf
    <2>3. QED BY <2>1, <2>2, BankViews, CoversByKey, Table DEF BankKinds, Covers
  <1>7. CASE m = Mutation("usePostTransaction", api.postTransaction, InvalidateLedger(b))
    <2>1. /\ m.hook = "usePostTransaction" /\ m.changes = Of(b, {"journal", "audit"})
          /\ m.invalidates = {TransactionList(b), AccountTree(b), AuditLog(b)}
      BY <1>1, <1>3, <1>7, MutationFields
    <2>2. PICK kind \in {"journal", "audit"} : part = <<b, kind>>
      BY <2>1, PartOf
    <2>3. QED BY <2>1, <2>2, BankViews, CoversByKey, Table DEF BankKinds, Covers
  <1>8. CASE m = Mutation("useReverseTransaction", api.reverseTransaction, InvalidateLedger(b))
    <2>1. /\ m.hook = "useReverseTransaction" /\ m.changes = Of(b, {"journal", "reversed", "audit"})
          /\ m.invalidates = {TransactionList(b), AccountTree(b), AuditLog(b)}
      BY <1>1, <1>3, <1>8, MutationFields
    <2>2. PICK kind \in {"journal", "reversed", "audit"} : part = <<b, kind>>
      BY <2>1, PartOf
    <2>3. QED BY <2>1, <2>2, BankViews, CoversByKey, Table DEF BankKinds, Covers
  <1>9. QED BY <1>2, <1>4, <1>5, <1>6, <1>7, <1>8


(* the register's,                                                          *)
LEMMA DepositCovers ==
  ASSUME NEW b \in Bank, NEW m \in DepositMutations(b), NEW q \in Queries,
         NEW part \in m.changes, part \in q.reads
  PROVE  Covers(m, q)
  <1> DEFINE api == DepositChanges(b)
             marked == {"deposits", "holds", "depositAudit"}
  <1>1. /\ api.openDepositAccount = Of(b, {"deposits", "depositAudit", "accounts", "audit"})
        /\ api.captureHold = Of(b, {"holds", "depositAudit", "journal", "audit"})
        /\ api.takeSnapshot = Of(b, {"snapshots", "depositAudit"})
        /\ \A changes \in {api.setDepositStatus, api.closeDepositAccount, api.createHold, api.releaseHold} :
             changes \subseteq Of(b, marked)
    BY DEF DepositChanges, Of
  <1>2. \/ m = Mutation("useOpenDepositAccount", api.openDepositAccount, InvalidateDeposits(b))
        \/ m = Mutation("useSetDepositStatus", api.setDepositStatus, InvalidateDeposits(b))
        \/ m = Mutation("useCloseDepositAccount", api.closeDepositAccount, InvalidateDeposits(b))
        \/ m = Mutation("useCreateHold", api.createHold, InvalidateDeposits(b))
        \/ m = Mutation("useReleaseHold", api.releaseHold, InvalidateDeposits(b))
        \/ m = Mutation("useCaptureHold", api.captureHold, InvalidateDeposits(b) \cup InvalidateLedger(b))
        \/ m = Mutation("useTakeSnapshot", api.takeSnapshot, {SnapshotTree(b), DepositAuditLog(b)})
    BY Zenon DEF DepositMutations, SnapshotTree
  <1> HIDE DEF api
  <1>3. /\ InvalidateDeposits(b) = {DepositTree(b), DepositAuditLog(b)}
        /\ InvalidateLedger(b) = {TransactionList(b), AccountTree(b), AuditLog(b)}
    BY DEF InvalidateDeposits, InvalidateLedger, AccountTree
  <1>4. ASSUME NEW hook, NEW changes, changes \subseteq Of(b, marked),
               m = Mutation(hook, changes, InvalidateDeposits(b))
        PROVE  Covers(m, q)
    <2>1. part \in Of(b, marked) /\ m.invalidates = {DepositTree(b), DepositAuditLog(b)}
      BY <1>3, <1>4, MutationFields
    <2>2. PICK kind \in marked : part = <<b, kind>>
      BY <2>1, PartOf
    <2>3. QED BY <2>1, <2>2, BankViews, CoversByKey DEF BankKinds
  <1>5. CASE m = Mutation("useOpenDepositAccount", api.openDepositAccount, InvalidateDeposits(b))
    <2>1. /\ m.hook = "useOpenDepositAccount"
          /\ m.changes = Of(b, {"deposits", "depositAudit", "accounts", "audit"})
          /\ m.invalidates = {DepositTree(b), DepositAuditLog(b)}
      BY <1>1, <1>3, <1>5, MutationFields
    <2>2. PICK kind \in {"deposits", "depositAudit", "accounts", "audit"} : part = <<b, kind>>
      BY <2>1, PartOf
    <2>3. QED BY <2>1, <2>2, BankViews, CoversByKey, Table DEF BankKinds, Covers
  <1>6. CASE m = Mutation("useCaptureHold", api.captureHold, InvalidateDeposits(b) \cup InvalidateLedger(b))
    <2>1. /\ m.changes = Of(b, {"holds", "depositAudit", "journal", "audit"})
          /\ {DepositTree(b), DepositAuditLog(b), TransactionList(b), AccountTree(b), AuditLog(b)}
               \subseteq m.invalidates
      BY <1>1, <1>3, <1>6, MutationFields
    <2>2. PICK kind \in {"holds", "depositAudit", "journal", "audit"} : part = <<b, kind>>
      BY <2>1, PartOf
    <2>3. QED BY <2>1, <2>2, BankViews, CoversByKey DEF BankKinds
  <1>7. CASE m = Mutation("useTakeSnapshot", api.takeSnapshot, {SnapshotTree(b), DepositAuditLog(b)})
    <2>1. /\ m.changes = Of(b, {"snapshots", "depositAudit"})
          /\ m.invalidates = {SnapshotTree(b), DepositAuditLog(b)}
      BY <1>1, <1>7, MutationFields
    <2>2. PICK kind \in {"snapshots", "depositAudit"} : part = <<b, kind>>
      BY <2>1, PartOf
    <2>3. QED BY <2>1, <2>2, BankViews, CoversByKey DEF BankKinds
  <1>8. QED BY <1>1, <1>2, <1>4, <1>5, <1>6, <1>7

(* funding and adding a bank,                                               *)
LEMMA ParticipantCovers ==
  ASSUME NEW b \in Bank, NEW m, m = FundDeposit(b) \/ m = AddParticipant(b), NEW q \in Queries,
         NEW part \in m.changes, part \in q.reads
  PROVE  Covers(m, q)
  <1> DEFINE api == ParticipantChanges(b)
  <1>1. /\ api.addParticipant = Of("network", {"participants", "centralAudit"})
        /\ api.fundDeposit = Of(b, {"journal", "audit"}) \cup Of("network", {"reserves", "centralAudit"})
    BY DEF ParticipantChanges, Network, Of
  <1>2. FundDeposit(b) = Mutation("useFundDeposit", api.fundDeposit,
                            InvalidateDeposits(b) \cup {Reserves, Reserves \o <<b>>, CentralAudit})
    BY Zenon DEF FundDeposit
  <1>3. AddParticipant(b) = Mutation("useAddParticipant", api.addParticipant, {<<"participants">>})
    BY Zenon DEF AddParticipant
  <1> HIDE DEF api
  <1>4. CASE m = FundDeposit(b)
    <2>1. /\ m.hook = "useFundDeposit"
          /\ m.changes = Of(b, {"journal", "audit"}) \cup Of("network", {"reserves", "centralAudit"})
          /\ m.invalidates = InvalidateDeposits(b) \cup {Reserves, Reserves \o <<b>>, CentralAudit}
      BY <1>1, <1>2, <1>4, MutationFields
    <2>2. {DepositTree(b), Reserves, CentralAudit} \subseteq m.invalidates
      BY <2>1 DEF InvalidateDeposits
    <2>3. CASE part \in Of(b, {"journal", "audit"})
      <3>1. PICK kind \in {"journal", "audit"} : part = <<b, kind>>
        BY <2>3, PartOf
      <3>2. QED BY <2>1, <2>2, <3>1, BankViews, CoversByKey, Table DEF BankKinds, Covers
    <2>4. CASE part \in Of("network", {"reserves", "centralAudit"})
      <3>1. PICK kind \in {"reserves", "centralAudit"} : part = <<"network", kind>>
        BY <2>4, PartOf
      <3>2. QED BY <2>2, <3>1, NetworkViews, CoversByKey DEF NetworkKinds
    <2>5. QED BY <2>1, <2>3, <2>4
  <1>5. CASE m = AddParticipant(b)
    <2>1. /\ m.hook = "useAddParticipant" /\ m.changes = Of("network", {"participants", "centralAudit"})
          /\ m.invalidates = {<<"participants">>}
      BY <1>1, <1>3, <1>5, MutationFields
    <2>2. PICK kind \in {"participants", "centralAudit"} : part = <<"network", kind>>
      BY <2>1, PartOf
    <2>3. QED BY <2>1, <2>2, NetworkViews, CoversByKey, Table DEF NetworkKinds, Covers
  <1>6. QED BY <1>4, <1>5

(* and the network's.                                                       *)
LEMMA MandateCovers ==
  ASSUME NEW m \in MandateMutations, NEW q \in Queries, NEW part \in m.changes, part \in q.reads
  PROVE  Covers(m, q)
  <1> DEFINE api == PaymentChanges({})
  <1>1. api.createMandate = Of("network", {"mandates"}) /\ api.revokeMandate = Of("network", {"mandates"})
    BY DEF PaymentChanges, Network, Of
  <1>2. \/ m = Mutation("useCreateMandate", api.createMandate, {<<"mandates">>})
        \/ m = Mutation("useRevokeMandate", api.revokeMandate, {<<"mandates">>})
    BY Zenon DEF MandateMutations
  <1> HIDE DEF api
  <1>3. m.changes = Of("network", {"mandates"}) /\ m.invalidates = {<<"mandates">>}
    BY <1>1, <1>2, MutationFields
  <1>4. part = <<"network", "mandates">>
    BY <1>3, PartOf
  <1>5. QED BY <1>3, <1>4, NetworkViews, CoversByKey DEF NetworkKinds

LEMMA PaymentCovers ==
  ASSUME NEW bs \in SUBSET Bank, NEW m \in PaymentMutations(bs), NEW q \in Queries,
         NEW part \in m.changes, part \in q.reads
  PROVE  Covers(m, q)
  <1> DEFINE api == PaymentChanges(bs)
             moved == {"payments", "cycles", "settlements", "reserves", "centralAudit"}
             changed == Of("network", moved) \cup (bs \X {"journal", "audit", "reversed"})
  <1>1. /\ api.openCycle = Of("network", {"cycles"})
        /\ \A changes \in {api.returnPayment, api.closeCycle, api.settleCycle, api.initiatePayment,
                            api.rejectPayment} : changes \subseteq changed
    BY DEF PaymentChanges, Network, Of
  <1>2. \/ m = Mutation("useReturnPayment", api.returnPayment, InvalidateNetwork)
        \/ m = Mutation("useOpenCycle", api.openCycle, {<<"cycles">>})
        \/ m = Mutation("useCloseCycle", api.closeCycle, InvalidateNetwork)
        \/ m = Mutation("useSettleCycle", api.settleCycle, InvalidateNetwork)
        \/ m = Mutation("useInitiatePayment", api.initiatePayment, InvalidateNetwork)
        \/ m = Mutation("useRejectPayment", api.rejectPayment, InvalidateNetwork)
    <2> DEFINE always == { Mutation("useReturnPayment", api.returnPayment, InvalidateNetwork),
                           Mutation("useOpenCycle", api.openCycle, {<<"cycles">>}),
                           Mutation("useCloseCycle", api.closeCycle, InvalidateNetwork),
                           Mutation("useSettleCycle", api.settleCycle, InvalidateNetwork) }
               ofOne == { Mutation("useInitiatePayment", api.initiatePayment, InvalidateNetwork),
                          Mutation("useRejectPayment", api.rejectPayment, InvalidateNetwork) }
    <2>1. m \in always \cup IF Cardinality(bs) > 1 THEN {} ELSE ofOne
      BY Zenon DEF PaymentMutations
    <2>2. m \in always \/ m \in ofOne
      <3> HIDE DEF always, ofOne
      <3>1. QED BY <2>1
    <2> HIDE DEF api
    <2>3. QED BY <2>2, Zenon
  <1> HIDE DEF api
  <1>3. CASE m = Mutation("useOpenCycle", api.openCycle, {<<"cycles">>})
    <2>1. m.changes = Of("network", {"cycles"}) /\ m.invalidates = {<<"cycles">>}
      BY <1>1, <1>3, MutationFields
    <2>2. part = <<"network", "cycles">>
      BY <2>1, PartOf
    <2>3. QED BY <2>1, <2>2, NetworkViews, CoversByKey DEF NetworkKinds
  <1>4. ASSUME NEW hook, NEW changes, changes \subseteq changed, m = Mutation(hook, changes, InvalidateNetwork)
        PROVE  Covers(m, q)
    <2>1. part \in changed /\ m.invalidates = InvalidateNetwork
      BY <1>4, MutationFields
    <2>2. CASE part \in Of("network", moved)
      <3>1. PICK kind \in moved : part = <<"network", kind>>
        BY <2>2, PartOf
      <3>2. QED BY <2>1, <3>1, NetworkViews, CoversByKey DEF NetworkKinds, InvalidateNetwork
    <2>3. CASE part \in bs \X {"journal", "audit", "reversed"}
      <3>1. PICK b \in Bank, kind \in {"journal", "audit", "reversed"} : part = <<b, kind>>
        BY <2>3
      <3>2. Reaches(<<"participants">>, q)
        BY <3>1, BankViews DEF BankKinds
      <3>3. <<"participants">> \in m.invalidates
        BY <2>1 DEF InvalidateNetwork
      <3>4. QED BY <3>2, <3>3, CoversByKey
    <2>4. QED BY <2>1, <2>2, <2>3
  <1> HIDE DEF changed
  <1>5. QED BY <1>1, <1>2, <1>3, <1>4

LEMMA Coverage ==
  ASSUME NEW m \in Mutations, NEW q \in Queries, m.changes \cap q.reads # {}
  PROVE  Covers(m, q)
  <1>1. PICK part \in m.changes : part \in q.reads
    OBVIOUS
  <1> DEFINE ofBanks == UNION { LedgerMutations(b) \cup DepositMutations(b)
                                  \cup {FundDeposit(b), AddParticipant(b)} : b \in Bank }
             ofNetwork == UNION {PaymentMutations(bs) : bs \in (SUBSET Bank) \ {{}}}
  <1>2. m \in ofBanks \cup MandateMutations \cup ofNetwork
    BY Zenon DEF Mutations
  <1>3. CASE m \in ofBanks
    <2>1. PICK b \in Bank : m \in LedgerMutations(b) \cup DepositMutations(b) \cup {FundDeposit(b), AddParticipant(b)}
      BY <1>3, Zenon
    <2>2. CASE m \in LedgerMutations(b)
      BY <1>1, <2>2, LedgerCovers
    <2>3. CASE m \in DepositMutations(b)
      BY <1>1, <2>3, DepositCovers
    <2>4. CASE m = FundDeposit(b) \/ m = AddParticipant(b)
      BY <1>1, <2>4, ParticipantCovers
    <2>5. QED BY <2>1, <2>2, <2>3, <2>4
  <1>4. CASE m \in ofNetwork
    <2>1. PICK bs \in SUBSET Bank : m \in PaymentMutations(bs)
      BY <1>4, Zenon
    <2>2. QED BY <1>1, <2>1, PaymentCovers
  <1> HIDE DEF ofBanks, ofNetwork
  <1>5. QED BY <1>1, <1>2, <1>3, <1>4, MandateCovers


-----------------------------------------------------------------------------
(* A view loaded, or about to be, from the server when its log had reached  *)
(* the j-th mutation; or else it is known to be stale, or being reloaded.   *)
Fresh(e, j) ==
  ~e.overtaken =>
    /\ Settled(e) => j <= e.data
    /\ Answered(e) => j <= e.fetch

LogRecord == [by : Mutations, confirmed : BOOLEAN]
LogTyped == log \in Seq(LogRecord)
CacheTyped == DOMAIN cache \subseteq Queries /\ \A q \in DOMAIN cache : cache[q] \in Entry

(* Every view is fresh of the confirmed mutations that invalidate it. *)
Followed ==
  \A j \in DOMAIN log : \A q \in DOMAIN cache :
    log[j].confirmed /\ Matches(log[j].by, q) => Fresh(cache[q], j)

FollowInv == LogTyped /\ CacheTyped /\ Followed

LEMMA Sentinels == Idle # Asked /\ NoData \notin Nat /\ Idle \notin Nat /\ Asked \notin Nat
  BY SentinelAssumption

(* What the steps of the cache do to a view. *)
LEMMA Started ==
  ASSUME NEW e \in Entry
  PROVE  Start(e) \in Entry /\ \A j : Fresh(Start(e), j)
  <1>1. Start(e) \in Entry
    BY DEF Start, Entry
  <1>2. Start(e).fetch = Asked
    BY DEF Start, Entry
  <1>3. QED BY <1>1, <1>2, Sentinels DEF Fresh, Settled, Answered

LEMMA ShownOrNot ==
  ASSUME NEW e \in Entry, NEW v \in BOOLEAN
  PROVE  /\ [e EXCEPT !.shown = v] \in Entry
         /\ \A j : Fresh(e, j) => Fresh([e EXCEPT !.shown = v], j)
  <1> DEFINE f == [e EXCEPT !.shown = v]
  <1>1. f \in Entry
    BY DEF Entry
  <1>2. f.data = e.data /\ f.fetch = e.fetch /\ f.invalid = e.invalid /\ f.overtaken = e.overtaken
    BY DEF Entry
  <1> HIDE DEF f
  <1>3. \A j : Fresh(e, j) => Fresh(f, j)
    BY <1>2, Zenon DEF Fresh, Settled, Answered
  <1>4. QED BY <1>1, <1>3 DEF f

LEMMA AnsweredAt ==
  ASSUME NEW e \in Entry, NEW n \in Nat
  PROVE  /\ [e EXCEPT !.fetch = n] \in Entry
         /\ \A j : j <= n => Fresh([e EXCEPT !.fetch = n], j)
  <1> DEFINE f == [e EXCEPT !.fetch = n]
  <1>1. f \in Entry /\ f.fetch = n
    BY DEF Entry
  <1> HIDE DEF f
  <1>2. n # Idle
    BY Sentinels
  <1>3. \A j : j <= n => Fresh(f, j)
    BY <1>1, <1>2, Zenon DEF Fresh, Settled, Answered
  <1>4. QED BY <1>1, <1>3 DEF f

LEMMA Delivered ==
  ASSUME NEW e \in Entry, Answered(e)
  PROVE  LET f == [e EXCEPT !.data = e.fetch, !.fetch = Idle, !.invalid = FALSE] IN
         f \in Entry /\ \A j : Fresh(e, j) => Fresh(f, j)
  <1> DEFINE f == [e EXCEPT !.data = e.fetch, !.fetch = Idle, !.invalid = FALSE]
  <1>1. e.fetch \in Nat
    BY DEF Answered, Entry
  <1>2. f \in Entry
    BY <1>1 DEF Entry
  <1>3. f.data = e.fetch /\ f.fetch = Idle /\ f.overtaken = e.overtaken
    BY DEF Entry
  <1> HIDE DEF f
  <1>4. ~Answered(f)
    BY <1>3 DEF Answered
  <1>5. \A j : Fresh(e, j) => Fresh(f, j)
    BY <1>3, <1>4, Zenon DEF Fresh
  <1>6. QED BY <1>2, <1>5 DEF f

LEMMA Failed ==
  ASSUME NEW e \in Entry
  PROVE  LET f == [e EXCEPT !.fetch = Idle, !.invalid = TRUE] IN f \in Entry /\ \A j : Fresh(f, j)
  <1> DEFINE f == [e EXCEPT !.fetch = Idle, !.invalid = TRUE]
  <1>1. f \in Entry
    BY DEF Entry
  <1>2. f.fetch = Idle /\ f.invalid
    BY DEF Entry
  <1> HIDE DEF f
  <1>3. \A j : Fresh(f, j)
    BY <1>2 DEF Fresh, Settled, Answered
  <1>4. QED BY <1>1, <1>3 DEF f

LEMMA InvalidatedIs ==
  ASSUME NEW e \in Entry
  PROVE  Invalidated(e) \in Entry /\ \A j : Fresh(Invalidated(e), j)
  <1> DEFINE marked == [e EXCEPT !.invalid = TRUE]
             left == [marked EXCEPT !.overtaken = e.fetch # Idle]
  <1>1. marked \in Entry
    BY DEF Entry
  <1>2. left \in Entry
    BY DEF Entry
  <1>3. left.invalid /\ left.fetch = e.fetch /\ (left.overtaken <=> e.fetch # Idle)
    BY DEF Entry
  <1>4. Invalidated(e) = Start(marked) \/ Invalidated(e) = left
    BY DEF Invalidated
  <1> HIDE DEF marked, left
  <1>5. \A j : Fresh(left, j)
    BY <1>3 DEF Fresh, Settled, Answered
  <1>6. QED BY <1>1, <1>2, <1>4, <1>5, Started


-----------------------------------------------------------------------------
(* A step of the cache alone keeps the invariant if what it changes is      *)
(* fresh, or as fresh as it was.                                            *)
AsFresh(q) ==
  /\ cache'[q] \in Entry
  /\ \/ \A j \in DOMAIN log : Fresh(cache'[q], j)
     \/ q \in DOMAIN cache /\ \A j \in DOMAIN log : Fresh(cache[q], j) => Fresh(cache'[q], j)

LEMMA CacheStep ==
  ASSUME FollowInv, UNCHANGED log, DOMAIN cache' \subseteq Queries,
         \A q \in DOMAIN cache' : AsFresh(q)
  PROVE  FollowInv'
  <1>1. LogTyped' /\ CacheTyped'
    BY DEF FollowInv, LogTyped, CacheTyped, AsFresh
  <1>2. ASSUME NEW j \in DOMAIN log', NEW q \in DOMAIN cache', log'[j].confirmed, Matches(log'[j].by, q)
        PROVE  Fresh(cache'[q], j)
    <2>1. j \in DOMAIN log /\ log[j].confirmed /\ Matches(log[j].by, q)
      BY <1>2
    <2>2. q \in DOMAIN cache => Fresh(cache[q], j)
      BY <2>1, Zenon DEF FollowInv, Followed
    <2>3. QED BY <2>1, <2>2, Zenon DEF AsFresh
  <1>3. Followed'
    BY <1>2, Zenon DEF Followed
  <1>4. QED BY <1>1, <1>3 DEF FollowInv

(* A step that changes one view. *)
LEMMA ViewStep ==
  ASSUME FollowInv, UNCHANGED log, NEW q \in DOMAIN cache, NEW e \in Entry,
         cache' = [cache EXCEPT ![q] = e],
         \A j \in DOMAIN log : Fresh(cache[q], j) => Fresh(e, j)
  PROVE  FollowInv'
  <1>1. DOMAIN cache' = DOMAIN cache /\ cache'[q] = e /\ \A v \in DOMAIN cache \ {q} : cache'[v] = cache[v]
    OBVIOUS
  <1>2. DOMAIN cache \subseteq Queries /\ \A v \in DOMAIN cache : cache[v] \in Entry
    BY DEF FollowInv, CacheTyped
  <1>3. AsFresh(q)
    BY <1>1, Zenon DEF AsFresh
  <1>4. ASSUME NEW v \in DOMAIN cache', v # q PROVE AsFresh(v)
    <2>1. cache'[v] = cache[v] /\ v \in DOMAIN cache /\ cache[v] \in Entry
      BY <1>1, <1>2, <1>4
    <2>2. QED BY <2>1, Zenon DEF AsFresh
  <1>5. \A v \in DOMAIN cache' : AsFresh(v)
    BY <1>3, <1>4, Zenon
  <1>6. QED BY <1>1, <1>2, <1>5, CacheStep

LEMMA MountKeeps ==
  ASSUME FollowInv, NEW q \in Queries, Mount(q)
  PROVE  FollowInv'
  <1>1. UNCHANGED log /\ DOMAIN cache \subseteq Queries /\ \A v \in DOMAIN cache : cache[v] \in Entry
    BY DEF Mount, FollowInv, CacheTyped
  <1>2. CASE /\ q \notin DOMAIN cache
             /\ cache' = [v \in DOMAIN cache \cup {q} |-> IF v = q THEN Missing ELSE cache[v]]
    <2>1. Missing \in Entry /\ Missing.fetch = Asked
      BY DEF Missing, Entry
    <2>2. \A j : Fresh(Missing, j)
      BY <2>1, Sentinels DEF Fresh, Settled, Answered
    <2>3. /\ DOMAIN cache' = DOMAIN cache \cup {q} /\ cache'[q] = Missing
          /\ \A v \in DOMAIN cache : cache'[v] = cache[v]
      BY <1>2
    <2>4. AsFresh(q)
      BY <2>1, <2>2, <2>3 DEF AsFresh
    <2>5. ASSUME NEW v \in DOMAIN cache PROVE AsFresh(v)
      <3>1. cache'[v] = cache[v] /\ cache[v] \in Entry
        BY <1>1, <2>3
      <3>2. QED BY <3>1, Zenon DEF AsFresh
    <2>6. DOMAIN cache' \subseteq Queries /\ \A v \in DOMAIN cache' : AsFresh(v)
      BY <1>1, <2>3, <2>4, <2>5
    <2>7. QED BY <1>1, <2>6, CacheStep
  <1>3. CASE q \in DOMAIN cache
    <2> DEFINE e == [cache[q] EXCEPT !.shown = TRUE]
    <2>1. e \in Entry /\ \A j : Fresh(cache[q], j) => Fresh(e, j)
      BY <1>1, <1>3, ShownOrNot
    <2>2. cache' = [cache EXCEPT ![q] = Start(e)] \/ cache' = [cache EXCEPT ![q] = e]
      BY <1>3 DEF Mount
    <2> HIDE DEF e
    <2>3. Start(e) \in Entry /\ \A j : Fresh(Start(e), j)
      BY <2>1, Started
    <2>4. QED BY <1>1, <1>3, <2>1, <2>2, <2>3, ViewStep
  <1>4. QED BY <1>2, <1>3 DEF Mount

LEMMA CacheKeeps ==
  ASSUME FollowInv, NEW q \in DOMAIN cache,
         Refetch(q) \/ Unmount(q) \/ Collect(q) \/ Answer(q) \/ Deliver(q) \/ FetchFails(q)
  PROVE  FollowInv'
  <1>1. DOMAIN cache \subseteq Queries /\ \A v \in DOMAIN cache : cache[v] \in Entry
    BY DEF FollowInv, CacheTyped
  <1>2. cache[q] \in Entry
    BY <1>1
  <1>3. CASE Refetch(q)
    <2>1. cache' = [cache EXCEPT ![q] = Start(cache[q])] /\ UNCHANGED log
      BY <1>3 DEF Refetch
    <2>2. QED BY <1>2, <2>1, Started, ViewStep
  <1>4. CASE Unmount(q)
    <2> DEFINE e == [cache[q] EXCEPT !.shown = FALSE]
    <2>1. cache' = [cache EXCEPT ![q] = e] /\ UNCHANGED log
      BY <1>4 DEF Unmount
    <2>2. e \in Entry /\ \A j : Fresh(cache[q], j) => Fresh(e, j)
      BY <1>2, ShownOrNot
    <2> HIDE DEF e
    <2>3. QED BY <2>1, <2>2, ViewStep
  <1>5. CASE Collect(q)
    <2>1. /\ UNCHANGED log /\ DOMAIN cache' = DOMAIN cache \ {q}
          /\ \A v \in DOMAIN cache' : cache'[v] = cache[v]
      BY <1>5 DEF Collect
    <2>2. ASSUME NEW v \in DOMAIN cache' PROVE AsFresh(v)
      <3>1. v \in DOMAIN cache /\ cache'[v] = cache[v] /\ cache[v] \in Entry
        BY <1>1, <2>1
      <3>2. QED BY <3>1, Zenon DEF AsFresh
    <2>3. DOMAIN cache' \subseteq Queries
      BY <1>1, <2>1
    <2>4. QED BY <2>1, <2>2, <2>3, CacheStep
  <1>6. CASE Answer(q)
    <2>1. PICK n : n = Len(log)
      OBVIOUS
    <2>2. n \in Nat /\ \A j \in DOMAIN log : j <= n
      BY <2>1, LenProperties DEF FollowInv, LogTyped
    <2> DEFINE e == [cache[q] EXCEPT !.fetch = n]
    <2>3. cache' = [cache EXCEPT ![q] = e] /\ UNCHANGED log
      BY <1>6, <2>1 DEF Answer
    <2>4. e \in Entry /\ \A j \in DOMAIN log : Fresh(e, j)
      BY <1>2, <2>2, AnsweredAt
    <2> HIDE DEF e
    <2>5. QED BY <2>3, <2>4, ViewStep
  <1>7. CASE Deliver(q)
    <2> DEFINE e == [cache[q] EXCEPT !.data = cache[q].fetch, !.fetch = Idle, !.invalid = FALSE]
    <2>1. cache' = [cache EXCEPT ![q] = e] /\ UNCHANGED log /\ Answered(cache[q])
      BY <1>7 DEF Deliver
    <2>2. e \in Entry /\ \A j : Fresh(cache[q], j) => Fresh(e, j)
      BY <1>2, <2>1, Delivered
    <2> HIDE DEF e
    <2>3. QED BY <2>1, <2>2, ViewStep
  <1>8. CASE FetchFails(q)
    <2> DEFINE e == [cache[q] EXCEPT !.fetch = Idle, !.invalid = TRUE]
    <2>1. cache' = [cache EXCEPT ![q] = e] /\ UNCHANGED log
      BY <1>8 DEF FetchFails
    <2>2. e \in Entry /\ \A j : Fresh(e, j)
      BY <1>2, Failed
    <2> HIDE DEF e
    <2>3. QED BY <2>1, <2>2, ViewStep
  <1>9. QED BY <1>3, <1>4, <1>5, <1>6, <1>7, <1>8

LEMMA ApplyKeeps ==
  ASSUME FollowInv, NEW m \in Mutations, Apply(m)
  PROVE  FollowInv'
  <1> DEFINE applied == [by |-> m, confirmed |-> FALSE]
  <1>1. log \in Seq(LogRecord) /\ applied \in LogRecord
    BY DEF FollowInv, LogTyped, LogRecord
  <1>2. log' = Append(log, applied) /\ cache' = cache
    BY DEF Apply
  <1>3. ~applied.confirmed
    OBVIOUS
  <1> HIDE DEF applied
  <1>4. /\ LogTyped' /\ DOMAIN log' = DOMAIN log \cup {Len(log) + 1}
        /\ log'[Len(log) + 1] = applied /\ \A j \in DOMAIN log : log'[j] = log[j]
    BY <1>1, <1>2, AppendProperties, LenProperties DEF LogTyped
  <1>5. CacheTyped'
    BY <1>2 DEF FollowInv, CacheTyped
  <1>6. ASSUME NEW j \in DOMAIN log', NEW q \in DOMAIN cache', log'[j].confirmed, Matches(log'[j].by, q)
        PROVE  Fresh(cache'[q], j)
    <2>1. j \in DOMAIN log /\ log'[j] = log[j]
      BY <1>3, <1>4, <1>6
    <2>2. QED BY <1>2, <1>6, <2>1, Zenon DEF FollowInv, Followed
  <1>7. Followed'
    BY <1>6, Zenon DEF Followed
  <1>8. QED BY <1>4, <1>5, <1>7 DEF FollowInv

LEMMA ConfirmKeeps ==
  ASSUME FollowInv, NEW i \in DOMAIN log, Confirm(i)
  PROVE  FollowInv'
  <1>1. log \in Seq(LogRecord)
    BY DEF FollowInv, LogTyped
  <1>2. log' = [log EXCEPT ![i].confirmed = TRUE]
    BY DEF Confirm
  <1>3. LogTyped' /\ DOMAIN log' = DOMAIN log
    <2>1. PICK n \in Nat : log \in [1 .. n -> LogRecord]
      BY <1>1, SeqDef
    <2>2. log' \in [1 .. n -> LogRecord]
      BY <1>2, <2>1 DEF LogRecord
    <2>3. log' \in Seq(LogRecord)
      BY <2>2, SeqDef
    <2>4. QED BY <1>2, <2>3 DEF LogTyped
  <1>4. \A j \in DOMAIN log : log'[j].by = log[j].by /\ (j # i => log'[j] = log[j])
    BY <1>1, <1>2 DEF LogRecord
  <1>5. /\ DOMAIN cache' = DOMAIN cache /\ DOMAIN cache \subseteq Queries
        /\ \A q \in DOMAIN cache : cache[q] \in Entry
    BY DEF Confirm, FollowInv, CacheTyped
  <1>6. \A q \in DOMAIN cache :
          /\ Matches(log[i].by, q) => cache'[q] = Invalidated(cache[q])
          /\ ~Matches(log[i].by, q) => cache'[q] = cache[q]
    BY DEF Confirm
  <1>7. CacheTyped'
    BY <1>5, <1>6, InvalidatedIs DEF CacheTyped
  <1>8. ASSUME NEW j \in DOMAIN log', NEW q \in DOMAIN cache', log'[j].confirmed, Matches(log'[j].by, q)
        PROVE  Fresh(cache'[q], j)
    <2>1. j \in DOMAIN log /\ q \in DOMAIN cache /\ log'[j].by = log[j].by
      BY <1>3, <1>4, <1>5
    <2>2. CASE Matches(log[i].by, q)
      BY <1>5, <1>6, <2>1, <2>2, InvalidatedIs
    <2>3. CASE ~Matches(log[i].by, q)
      <3>1. j # i /\ log'[j] = log[j] /\ cache'[q] = cache[q]
        BY <1>4, <1>6, <1>8, <2>1, <2>3
      <3>2. QED BY <1>8, <2>1, <3>1, Zenon DEF FollowInv, Followed
    <2>4. QED BY <2>2, <2>3
  <1>9. Followed'
    BY <1>8, Zenon DEF Followed
  <1>10. QED BY <1>3, <1>7, <1>9 DEF FollowInv

LEMMA InitFollow == ConsoleInit => FollowInv
  <1> SUFFICES ASSUME ConsoleInit PROVE FollowInv
    OBVIOUS
  <1>1. log = << >> /\ cache = << >> /\ DOMAIN << >> = {}
    BY DEF ConsoleInit
  <1>2. LogTyped
    BY <1>1 DEF LogTyped
  <1>3. QED BY <1>1, <1>2 DEF FollowInv, CacheTyped, Followed

LEMMA NextFollow == FollowInv /\ [ConsoleNext]_consoleVars => FollowInv'
  <1> SUFFICES ASSUME FollowInv, [ConsoleNext]_consoleVars PROVE FollowInv'
    OBVIOUS
  <1>1. CASE UNCHANGED consoleVars
    BY <1>1 DEF consoleVars, FollowInv, LogTyped, CacheTyped, Followed
  <1>2. CASE \E q \in Queries : Mount(q)
    BY <1>2, MountKeeps
  <1>3. CASE \E q \in DOMAIN cache :
               Refetch(q) \/ Unmount(q) \/ Collect(q) \/ Answer(q) \/ Deliver(q) \/ FetchFails(q)
    BY <1>3, CacheKeeps
  <1>4. CASE \E m \in Mutations : Apply(m)
    BY <1>4, ApplyKeeps
  <1>5. CASE \E i \in DOMAIN log : Confirm(i)
    BY <1>5, ConfirmKeeps
  <1>6. QED BY <1>1, <1>2, <1>3, <1>4, <1>5 DEF ConsoleNext

(* The console's cache follows the server: for any number of banks, views  *)
(* and mutations, and however their calls overlap, a view that is taken    *)
(* for current shows every mutation the console was told of, but for those *)
(* of the table (query-keys.ts:1-3).                                       *)
THEOREM ViewsFollowAlways == ConsoleSpec => []ViewsFollow
  <1>1. FollowInv => ViewsFollow
    <2> SUFFICES ASSUME FollowInv, NEW q \in DOMAIN cache, Settled(cache[q]), ~cache[q].overtaken,
                        NEW m \in Lacks(q)
                 PROVE  m.hook \in OverlookedBy(q.hook)
      BY DEF ViewsFollow
    <2>1. PICK j \in DOMAIN log : /\ log[j].confirmed /\ j > cache[q].data
                                  /\ log[j].by.changes \cap q.reads # {} /\ m = log[j].by
      BY DEF Lacks
    <2>2. m \in Mutations /\ q \in Queries /\ cache[q] \in Entry /\ j \in Nat
      <3>1. log \in Seq(LogRecord) /\ q \in Queries /\ cache[q] \in Entry
        BY DEF FollowInv, LogTyped, CacheTyped
      <3>2. j \in 1 .. Len(log) /\ log[j] \in LogRecord
        BY <2>1, <3>1, LenProperties, ElementOfSeq
      <3>3. QED BY <2>1, <3>1, <3>2 DEF LogRecord
    <2>3. cache[q].data \in Nat
      BY <2>2 DEF Settled, Entry
    <2>4. ~(j <= cache[q].data)
      BY <2>1, <2>2, <2>3
    <2>5. ~Matches(m, q)
      BY <2>1, <2>4, Zenon DEF FollowInv, Followed, Fresh
    <2>6. Covers(m, q)
      BY <2>1, <2>2, Coverage
    <2>7. QED BY <2>5, <2>6 DEF Covers
  <1>2. QED BY <1>1, InitFollow, NextFollow, PTL DEF ConsoleSpec

-----------------------------------------------------------------------------
\* The legs of the form for a transaction.

(* There is one input to each leg, and what is sent was ready.              *)
LegInv == TypeOK /\ SentPostable

(* An untouched form. *)
LEMMA EmptyForm ==
  /\ EmptyLegs \in Seq(Leg) /\ Len(EmptyLegs) = 2
  /\ Shown(EmptyLegs) \in Seq(Text) /\ Len(Shown(EmptyLegs)) = 2
  /\ \A i \in DOMAIN EmptyLegs : ParseDollars(Shown(EmptyLegs)[i]) = EmptyLegs[i].cents
  <1>1. /\ EmptyLeg("Debit") \in Leg /\ EmptyLeg("Credit") \in Leg
        /\ EmptyLeg("Debit").cents = Null /\ EmptyLeg("Credit").cents = Null
    BY DEF EmptyLeg, Leg, Direction
  <1>2. EmptyText \in Text /\ EmptyText.spells = Null
    BY DEF EmptyText, Text
  <1>3. /\ EmptyLegs \in Seq(Leg) /\ Len(EmptyLegs) = 2
        /\ DOMAIN EmptyLegs = 1..2
        /\ EmptyLegs[1] = EmptyLeg("Debit") /\ EmptyLegs[2] = EmptyLeg("Credit")
    BY <1>1 DEF EmptyLegs
  <1>4. Shown(EmptyLegs) = [i \in 1..2 |-> EmptyText]
    BY <1>1, <1>3 DEF Shown
  <1>5. Shown(EmptyLegs) \in [1..2 -> Text]
    BY <1>2, <1>4
  <1>6. Shown(EmptyLegs) \in Seq(Text)
    BY <1>5, SeqDef
  <1>7. Len(Shown(EmptyLegs)) = 2
    BY <1>5, <1>6, LenProperties
  <1>8. QED BY <1>1, <1>2, <1>3, <1>4, <1>6, <1>7 DEF ParseDollars

(* The amount a text spells is an amount a leg may hold, and so is what a   *)
(* text made of it spells: the same, if it is legible.                      *)
LEMMA TextFields ==
  ASSUME NEW text \in Text
  PROVE  /\ ParseDollars(text) \in Amount \cup {Null}
         /\ ParseDollars(text) # Null =>
              /\ CentsToInput(ParseDollars(text)) \subseteq Text
              /\ ParseDollars(text) = Infinity \/ Magnitude(ParseDollars(text)) <= Legible =>
                   \A tidied \in CentsToInput(ParseDollars(text)) :
                      ParseDollars(tidied) = ParseDollars(text)
  <1>1. text.spells \in Amount \cup {Null} /\ ParseDollars(text) = text.spells
    BY DEF Text, ParseDollars
  <1>2. ASSUME text.spells # Null
        PROVE  Spelling(text.spells) \subseteq Amount
    BY <1>1, <1>2 DEF Spelling, Amount
  <1>3. ASSUME text.spells # Null
        PROVE  CentsToInput(text.spells) \subseteq Text
    <2>1. \A c \in Amount : [spells |-> c, tidy |-> TRUE] \in Text
      BY DEF Text
    <2>2. QED BY <1>2, <1>3, <2>1 DEF CentsToInput
  <1>4. ASSUME text.spells = Infinity \/ Magnitude(text.spells) <= Legible,
               NEW tidied \in CentsToInput(text.spells)
        PROVE  ParseDollars(tidied) = text.spells
    BY <1>4 DEF CentsToInput, Spelling, ParseDollars
  <1>5. QED BY <1>1, <1>3, <1>4

(* What the steps leave of the form. *)
LEMMA Fields ==
  ASSUME TypeOK
  PROVE  /\ Len(legs) \in Nat /\ DOMAIN legs = 1..Len(legs) /\ DOMAIN texts = 1..Len(legs)
         /\ \A i \in 1..Len(legs) : legs[i] \in Leg /\ texts[i] \in Text
  BY LenProperties, ElementOfSeq DEF TypeOK

(* A leg of the form is changed, or the text of its input. *)
LEMMA LegChanged ==
  ASSUME TypeOK, NEW i \in DOMAIN legs
  PROVE  /\ \A a \in Account : [legs EXCEPT ![i].account = a] \in Seq(Leg)
         /\ \A d \in Direction : [legs EXCEPT ![i].direction = d] \in Seq(Leg)
         /\ \A c \in Amount \cup {Null} : [legs EXCEPT ![i].cents = c] \in Seq(Leg)
         /\ \A text \in Text : [texts EXCEPT ![i] = text] \in Seq(Text)
  <1>1. legs \in Seq(Leg) /\ texts \in Seq(Text) /\ legs[i] \in Leg
    BY Fields DEF TypeOK
  <1>2. \A leg \in Leg : /\ \A a \in Account : [leg EXCEPT !.account = a] \in Leg
                         /\ \A d \in Direction : [leg EXCEPT !.direction = d] \in Leg
                         /\ \A c \in Amount \cup {Null} : [leg EXCEPT !.cents = c] \in Leg
    BY DEF Leg
  <1>3. \A leg \in Leg : [legs EXCEPT ![i] = leg] \in Seq(Leg)
    BY <1>1
  <1>4. \A text \in Text : [texts EXCEPT ![i] = text] \in Seq(Text)
    BY <1>1, Fields
  <1>5. /\ \A a \in Account : [legs EXCEPT ![i].account = a] \in Seq(Leg)
        /\ \A d \in Direction : [legs EXCEPT ![i].direction = d] \in Seq(Leg)
        /\ \A c \in Amount \cup {Null} : [legs EXCEPT ![i].cents = c] \in Seq(Leg)
    BY <1>1, <1>2, <1>3
  <1>6. QED BY <1>4, <1>5

(* Removing a leg takes its place, and the last input, away. *)
LEMMA LegRemoved ==
  ASSUME TypeOK, NEW i \in DOMAIN legs, RemoveLeg(i)
  PROVE  /\ legs' \in Seq(Leg) /\ Len(legs') = Len(legs) - 1
         /\ texts' \in Seq(Text) /\ Len(texts') = Len(legs) - 1
         /\ \A j \in 1..(Len(legs) - 1) : texts'[j] = texts[j]
         /\ \A j \in 1..(i - 1) : legs'[j] = legs[j]
  <1> DEFINE n == Len(legs)
  <1>1. /\ legs \in Seq(Leg) /\ texts \in Seq(Text) /\ n \in Nat /\ i \in 1..n
        /\ Len(texts) = n /\ n > 2
    BY Fields DEF TypeOK, RemoveLeg
  <1>2. legs' = SubSeq(legs, 1, i - 1) \o SubSeq(legs, i + 1, n)
    BY DEF RemoveLeg, RemoveAt
  <1>3. texts' = SubSeq(texts, 1, n - 1)
    BY <1>1 DEF RemoveLeg
  <1> HIDE DEF n
  <1> DEFINE before == SubSeq(legs, 1, i - 1)
             behind == SubSeq(legs, i + 1, n)
  <1>4. \A j \in 1..n : legs[j] \in Leg /\ texts[j] \in Text
    BY Fields DEF n
  <1>5. /\ before \in Seq(Leg) /\ Len(before) = i - 1
        /\ \A j \in 1..(i - 1) : before[j] = legs[j]
    <2>1. \A j \in 1..(i - 1) : legs[j] \in Leg
      BY <1>1, <1>4
    <2>2. QED BY <1>1, <2>1, SubSeqProperties
  <1>6. behind \in Seq(Leg) /\ Len(behind) = n - i
    <2>1. \A j \in (i + 1)..n : legs[j] \in Leg
      BY <1>1, <1>4
    <2>2. QED BY <1>1, <2>1, SubSeqProperties
  <1> HIDE DEF before, behind
  <1>7. /\ legs' \in Seq(Leg) /\ Len(legs') = n - 1
        /\ \A j \in 1..(i - 1) : legs'[j] = legs[j]
    <2>1. legs' = before \o behind
      BY <1>2 DEF before, behind
    <2>2. QED BY <1>1, <1>5, <1>6, <2>1, ConcatProperties
  <1>8. /\ texts' \in Seq(Text) /\ Len(texts') = n - 1
        /\ \A j \in 1..(n - 1) : texts'[j] = texts[j]
    <2>1. \A j \in 1..(n - 1) : texts[j] \in Text
      BY <1>1, <1>4
    <2>2. QED BY <1>1, <1>3, <2>1, SubSeqProperties
  <1>9. QED BY <1>7, <1>8 DEF n

-----------------------------------------------------------------------------
(* A new form holds what it shows. *)
LEMMA InitLegInv == Init => LegInv
  <1>1. Init => TypeOK
    <2> SUFFICES ASSUME Init PROVE TypeOK
      OBVIOUS
    <2>1. legs \in Seq(Leg) /\ Len(legs) >= 2 /\ texts \in Seq(Text) /\ Len(texts) = Len(legs)
      BY EmptyForm DEF Init
    <2>2. open \in BOOLEAN /\ sent \in Call \cup {NoCall}
      BY DEF Init
    <2>3. QED BY <2>1, <2>2 DEF TypeOK
  <1>2. Init => SentPostable
    BY DEF Init, SentPostable
  <1>3. QED BY <1>1, <1>2 DEF LegInv

(* Editing keeps the form in shape.                                         *)
LEMMA EditType ==
  ASSUME TypeOK, NEW i \in DOMAIN legs,
         PickAccount(i) \/ PickDirection(i) \/ TypeAmount(i) \/ Blur(i) \/ RemoveLeg(i)
  PROVE  TypeOK'
  <1>1. CASE PickAccount(i) \/ PickDirection(i)
    <2>1. PICK leg : legs' = [legs EXCEPT ![i] = leg] /\ legs' \in Seq(Leg)
      BY <1>1, LegChanged DEF PickAccount, PickDirection
    <2>2. Len(legs') = Len(legs)
      BY <2>1 DEF TypeOK
    <2>3. QED BY <1>1, <2>1, <2>2 DEF TypeOK, PickAccount, PickDirection
  <1>2. CASE TypeAmount(i)
    <2>1. PICK text \in Text :
            /\ texts' = [texts EXCEPT ![i] = text]
            /\ legs' = [legs EXCEPT ![i].cents = ParseDollars(text)]
      BY <1>2, TypedAssumption DEF TypeAmount
    <2>2. legs' \in Seq(Leg) /\ texts' \in Seq(Text)
      BY <2>1, LegChanged, TextFields
    <2>3. Len(legs') = Len(legs) /\ Len(texts') = Len(texts)
      BY <2>1 DEF TypeOK
    <2>4. QED BY <1>2, <2>2, <2>3 DEF TypeOK, TypeAmount
  <1>3. CASE Blur(i)
    <2>1. PICK text \in Text : texts' = [texts EXCEPT ![i] = text]
      <3>1. texts[i] \in Text
        BY Fields
      <3>2. QED BY <1>3, <3>1, TextFields DEF Blur
    <2>2. texts' \in Seq(Text) /\ Len(texts') = Len(texts)
      BY <2>1, LegChanged DEF TypeOK
    <2>3. QED BY <1>3, <2>2 DEF TypeOK, Blur
  <1>4. CASE RemoveLeg(i)
    <2>1. Len(legs) \in Nat /\ Len(legs) > 2
      BY <1>4, Fields DEF RemoveLeg
    <2>2. QED BY <1>4, <2>1, LegRemoved DEF TypeOK, RemoveLeg
  <1>5. QED BY <1>1, <1>2, <1>3, <1>4

(* Within Safe, adding from the first to the last with doubles gives the    *)
(* sum.                                                                     *)
LEMMA PartSums ==
  ASSUME NEW m \in Nat, NEW f, \A i \in 1..m : f[i] \in Nat, NEW n \in 0..m
  PROVE  /\ SumFunctionOnSet(f, 1..n) \in Nat
         /\ SumFunctionOnSet(f, 1..n) <= SumFunctionOnSet(f, 1..m)
         /\ n # 0 => SumFunctionOnSet(f, 1..n) = SumFunctionOnSet(f, 1..(n - 1)) + f[n]
  <1>1. /\ IsFiniteSet(1..n) /\ IsFiniteSet((n + 1)..m) /\ IsFiniteSet(1..(n - 1))
        /\ 1..m = (1..n) \cup ((n + 1)..m) /\ (1..n) \cap ((n + 1)..m) = {}
    BY FS_Interval
  <1>2. Ints(f, 1..n) /\ Ints(f, (n + 1)..m) /\ Ints(f, 1..(n - 1))
    BY DEF Ints
  <1>3. SumFunctionOnSet(f, 1..m) = SumFunctionOnSet(f, 1..n) + SumFunctionOnSet(f, (n + 1)..m)
    BY <1>1, <1>2, SumUnion
  <1>4. \A i \in 1..n : f[i] \in Nat
    OBVIOUS
  <1>5. \A i \in (n + 1)..m : f[i] \in Nat
    OBVIOUS
  <1>6. SumFunctionOnSet(f, 1..n) \in Nat
    BY <1>1, <1>4, SumNat
  <1>7. SumFunctionOnSet(f, (n + 1)..m) \in Nat
    BY <1>1, <1>5, SumNat
  <1>8. PICK a \in Nat, b \in Nat :
          a = SumFunctionOnSet(f, 1..n) /\ b = SumFunctionOnSet(f, (n + 1)..m)
    BY <1>6, <1>7
  <1>9. SumFunctionOnSet(f, 1..n) <= SumFunctionOnSet(f, 1..m)
    BY <1>3, <1>8
  <1>10. ASSUME n # 0
         PROVE  SumFunctionOnSet(f, 1..n) = SumFunctionOnSet(f, 1..(n - 1)) + f[n]
    <2>1. n \notin 1..(n - 1) /\ (1..(n - 1)) \cup {n} = 1..n /\ f[n] \in Int
      BY <1>10
    <2>2. SumFunctionOnSet(f, (1..(n - 1)) \cup {n}) = SumFunctionOnSet(f, 1..(n - 1)) + f[n]
      BY <1>1, <1>2, <2>1, SumAdds
    <2>3. QED BY <2>1, <2>2
  <1>11. QED BY <1>6, <1>9, <1>10

Adds(s, f, m) == s = [n \in 0..m |-> IF n = 0 THEN 0 ELSE Plus(s[n - 1], f[n])]

LEMMA AddedExactly ==
  ASSUME NEW m \in Nat, NEW f, \A i \in 1..m : f[i] \in Nat, SumFunctionOnSet(f, 1..m) <= Safe
  PROVE  (CHOOSE s : Adds(s, f, m))[m] = SumFunctionOnSet(f, 1..m)
  <1> DEFINE part == [n \in 0..m |-> SumFunctionOnSet(f, 1..n)]
  <1>1. \A n \in 0..m : /\ part[n] \in Nat /\ part[n] <= Safe
                        /\ n # 0 => /\ part[n] = part[n - 1] + f[n]
                                    /\ part[n - 1] \in Nat /\ f[n] \in Nat
    <2> SUFFICES ASSUME NEW n \in 0..m
                 PROVE  /\ part[n] \in Nat /\ part[n] <= Safe
                        /\ n # 0 => /\ part[n] = part[n - 1] + f[n]
                                    /\ part[n - 1] \in Nat /\ f[n] \in Nat
      OBVIOUS
    <2>1. /\ part[n] = SumFunctionOnSet(f, 1..n)
          /\ n # 0 => n - 1 \in 0..m /\ part[n - 1] = SumFunctionOnSet(f, 1..(n - 1))
      OBVIOUS
    <2>2. SumFunctionOnSet(f, 1..m) \in Nat /\ m \in 0..m /\ Safe \in Nat
      BY PartSums, AmountAssumption
    <2> HIDE DEF part
    <2>3. /\ part[n] \in Nat /\ part[n] <= SumFunctionOnSet(f, 1..m)
          /\ n # 0 => part[n] = part[n - 1] + f[n]
      BY <2>1, PartSums
    <2>4. n # 0 => part[n - 1] \in Nat
      BY <2>1, PartSums
    <2>5. PICK a \in Nat, b \in Nat : a = part[n] /\ b = SumFunctionOnSet(f, 1..m)
      BY <2>2, <2>3
    <2>6. part[n] <= Safe
      BY <2>2, <2>3, <2>5
    <2>7. QED BY <2>3, <2>4, <2>6
  <1>2. part[0] = 0
    <2>1. 1..0 = {} /\ part[0] = SumFunctionOnSet(f, 1..0)
      OBVIOUS
    <2>2. QED BY <2>1, SumNone
  <1>3. part = [n \in 0..m |-> part[n]]
    OBVIOUS
  <1> HIDE DEF part
  <1>4. \A n \in 0..m : n # 0 => part[n] = Plus(part[n - 1], f[n])
    <2> SUFFICES ASSUME NEW n \in 0..m, n # 0 PROVE part[n] = Plus(part[n - 1], f[n])
      OBVIOUS
    <2>0. /\ part[n] = part[n - 1] + f[n] /\ part[n] <= Safe
          /\ part[n - 1] \in Nat /\ f[n] \in Nat
      <3>1. part[n] <= Safe
        BY <1>1
      <3>2. part[n] = part[n - 1] + f[n]
        BY <1>1
      <3>3. part[n - 1] \in Nat /\ f[n] \in Nat
        BY <1>1
      <3>4. QED BY <3>1, <3>2, <3>3
    <2>1. PICK a \in Nat, b \in Nat : a = part[n - 1] /\ b = f[n]
      BY <2>0, Zenon
    <2>2. part[n] = a + b /\ a + b <= Safe
      BY <2>0, <2>1
    <2>3. a # Infinity /\ b # Infinity
      BY AmountAssumption
    <2>4. Rounded(a + b) = a + b
      BY <2>2 DEF Rounded, Magnitude
    <2>5. QED BY <2>1, <2>2, <2>3, <2>4 DEF Plus
  <1>5. [n \in 0..m |-> part[n]] = [n \in 0..m |-> IF n = 0 THEN 0 ELSE Plus(part[n - 1], f[n])]
    BY <1>2, <1>4
  <1>6. Adds(part, f, m)
    BY <1>3, <1>5 DEF Adds
  <1> DEFINE sum == CHOOSE s : Adds(s, f, m)
  <1>7. Adds(sum, f, m)
    BY <1>6
  <1> HIDE DEF sum
  <1>8. \A n \in 0..m : sum[n] = IF n = 0 THEN 0 ELSE Plus(sum[n - 1], f[n])
    BY <1>7 DEF Adds
  <1> DEFINE F == {T \in SUBSET (1..m) : \A n \in 0..m : T = 1..n => sum[n] = part[n]}
  <1>9. ASSUME NEW T \in SUBSET (1..m), \A U \in SUBSET T : U # T => U \in F
        PROVE  T \in F
    <2> SUFFICES ASSUME NEW n \in 0..m, T = 1..n PROVE sum[n] = part[n]
      OBVIOUS
    <2>1. CASE n = 0
      BY <1>2, <1>8, <2>1
    <2>2. CASE n # 0
      <3>1. n - 1 \in 0..m /\ 1..(n - 1) \in SUBSET T /\ n \in T /\ n \notin 1..(n - 1)
        BY <2>2
      <3>2. 1..(n - 1) \in F
        BY <1>9, <3>1
      <3>3. sum[n - 1] = part[n - 1]
        BY <3>1, <3>2
      <3>4. sum[n] = Plus(sum[n - 1], f[n]) /\ part[n] = Plus(part[n - 1], f[n])
        BY <1>4, <1>8, <2>2
      <3>5. QED BY <3>3, <3>4
    <2>3. QED BY <2>1, <2>2
  <1> HIDE DEF F
  <1>10. 1..m \in F
    <2> DEFINE S == 1..m
    <2>1. IsFiniteSet(S)
      BY FS_Interval
    <2>2. ASSUME NEW T \in SUBSET S, \A U \in SUBSET T : U # T => U \in F
          PROVE  T \in F
      BY <1>9, <2>2
    <2> HIDE DEF S
    <2>3. SUBSET S \subseteq F
      BY <2>1, <2>2, StrongSetInduction
    <2> USE DEF S
    <2>4. QED BY <2>3
  <1>11. sum[m] = part[m]
    BY <1>10 DEF F
  <1>12. QED BY <1>11 DEF sum, part

(* A ready form within Safe: amounts that doubles and int64s alike hold.    *)
LEMMA SidesHeld ==
  ASSUME TypeOK, Ready, \A i \in DOMAIN legs : legs[i].cents # Infinity, NEW direction \in Direction
  PROVE  /\ \A i \in DOMAIN legs : /\ legs[i].cents \in Cents /\ legs[i].cents \in Int
                                   /\ legs[i].cents > 0 /\ legs[i].cents # Null
                                   /\ Held[i] = legs[i].cents
         /\ DOMAIN Side(direction, Held) = DOMAIN legs
         /\ \A i \in DOMAIN legs : Side(direction, Held)[i] \in Nat
         /\ \A i \in DOMAIN legs :
               legs[i].direction = direction => Side(direction, Held)[i] = legs[i].cents
  <1>1. \A i \in DOMAIN legs : legs[i].cents \in Amount \cup {Null}
    BY Fields DEF Leg
  <1>2. \A i \in DOMAIN legs : Positive(legs[i].cents)
    BY DEF Ready
  <1>3. \A i \in DOMAIN legs : /\ legs[i].cents \in Cents /\ legs[i].cents \in Int
                               /\ legs[i].cents > 0 /\ legs[i].cents # Null
                               /\ Held[i] = legs[i].cents
    BY <1>1, <1>2, AmountAssumption DEF Positive, Amount, Held
  <1>4. DOMAIN Side(direction, Held) = DOMAIN legs
    BY DEF Side
  <1>5. \A i \in DOMAIN legs :
          Side(direction, Held)[i] = IF legs[i].direction = direction THEN legs[i].cents ELSE 0
    BY <1>3 DEF Side
  <1>6. QED BY <1>3, <1>4, <1>5

LEMMA TotalExact ==
  ASSUME TypeOK, Ready, WithinSafe, NEW direction \in Direction
  PROVE  Total(direction) = SumFunction(Side(direction, Held))
  <1> DEFINE f == Side(direction, Held)
             m == Len(legs)
  <1>1. m \in Nat /\ DOMAIN legs = 1..m
    BY Fields
  <1>2. DOMAIN f = 1..m /\ \A i \in 1..m : f[i] \in Nat
    BY <1>1, SidesHeld DEF WithinSafe
  <1>3. Total(direction) = (CHOOSE s : Adds(s, f, m))[m]
    BY Zenon DEF Total, Adds
  <1>4. SumFunction(f) = SumFunctionOnSet(f, DOMAIN f)
    BY Zenon DEF SumFunction, SumFunctionOnSet, FoldFunction
  <1>5. SumFunction(f) <= Safe
    BY DEF WithinSafe
  <1> HIDE DEF f, m
  <1>6. SumFunctionOnSet(f, 1..m) <= Safe /\ SumFunction(f) = SumFunctionOnSet(f, 1..m)
    BY <1>2, <1>4, <1>5
  <1>7. (CHOOSE s : Adds(s, f, m))[m] = SumFunctionOnSet(f, 1..m)
    BY <1>1, <1>2, <1>6, AddedExactly
  <1>8. QED BY <1>3, <1>6, <1>7 DEF f

(* An amount of a side is at most the side's sum.                           *)
LEMMA AmountsSafe ==
  ASSUME TypeOK, Ready, WithinSafe, NEW i \in DOMAIN legs
  PROVE  Arrives(legs[i].cents) = {legs[i].cents} /\ legs[i].cents \in Int64
  <1> DEFINE f == Side(legs[i].direction, Held)
             S == DOMAIN legs
  <1>1. legs[i].direction \in Direction /\ IsFiniteSet(S)
    BY Fields, FS_Interval DEF Leg
  <1>2. /\ DOMAIN f = S /\ \A j \in S : f[j] \in Nat
        /\ f[i] = legs[i].cents /\ f[i] > 0 /\ legs[i].cents # Null /\ legs[i].cents # Infinity
    BY <1>1, SidesHeld DEF WithinSafe
  <1>3. SumFunction(f) = SumFunctionOnSet(f, DOMAIN f)
    BY Zenon DEF SumFunction, SumFunctionOnSet, FoldFunction
  <1>4. SumFunction(f) <= Safe
    BY <1>1 DEF WithinSafe
  <1> HIDE DEF f
  <1>5. SumFunctionOnSet(f, S) = f[i] + SumFunctionOnSet(f, S \ {i})
    BY <1>1, <1>2, SumTakes DEF Ints
  <1>6. SumFunctionOnSet(f, S \ {i}) \in Nat
    <2>1. IsFiniteSet(S \ {i}) /\ \A j \in S \ {i} : f[j] \in Nat
      BY <1>1, <1>2, FS_Subset
    <2>2. QED BY <2>1, SumNat
  <1>7. PICK a \in Nat, b \in Nat : a = legs[i].cents /\ b = SumFunctionOnSet(f, S \ {i})
    BY <1>2, <1>6
  <1>8. a + b <= Safe
    BY <1>2, <1>3, <1>4, <1>5, <1>7
  <1>9. a <= Safe /\ a \in Int64
    BY <1>8, AmountAssumption DEF Int64
  <1>10. Arrives(a) = {a}
    BY <1>2, <1>7, <1>9 DEF Arrives, Magnitude
  <1>11. QED BY <1>7, <1>9, <1>10

(* What a ready form sends is what it holds, if every amount is a number    *)
(* and no side exceeds Safe.                                                *)
LEMMA ReadyIsPostable ==
  ASSUME TypeOK, Ready, WithinSafe, NEW amounts,
         amounts \in [DOMAIN legs -> UNION {Arrives(legs[i].cents) : i \in DOMAIN legs}],
         \A i \in DOMAIN legs : amounts[i] \in Arrives(legs[i].cents)
  PROVE  Postable(amounts)
  <1>1. \A i \in DOMAIN legs : /\ amounts[i] = legs[i].cents
                               /\ amounts[i] \in Int64 /\ amounts[i] > 0
                               /\ legs[i].account # NoAccount
    <2> TAKE i \in DOMAIN legs
    <2>1. amounts[i] = legs[i].cents /\ legs[i].cents \in Int64
      BY AmountsSafe
    <2>2. legs[i].cents > 0
      BY SidesHeld DEF WithinSafe, Direction
    <2>3. QED BY <2>1, <2>2 DEF Ready
  <1>2. amounts = [i \in DOMAIN legs |-> amounts[i]]
    OBVIOUS
  <1>3. [i \in DOMAIN legs |-> amounts[i]] = [i \in DOMAIN legs |-> legs[i].cents]
    BY <1>1
  <1>4. amounts = Held
    BY <1>2, <1>3 DEF Held
  <1>5. SumFunction(Side("Debit", amounts)) = SumFunction(Side("Credit", amounts))
    <2>1. Total("Debit") = Total("Credit")
      BY DEF Ready, Balanced
    <2>2. /\ Total("Debit") = SumFunction(Side("Debit", Held))
          /\ Total("Credit") = SumFunction(Side("Credit", Held))
      BY TotalExact DEF Direction
    <2>3. QED BY <1>4, <2>1, <2>2
  <1>6. legs # <<>>
    BY DEF TypeOK
  <1>7. QED BY <1>1, <1>5, <1>6 DEF Postable

LEMMA NextLegInv == LegInv /\ [Next]_vars => LegInv'
  <1> SUFFICES ASSUME LegInv, [Next]_vars PROVE LegInv'
    OBVIOUS
  <1>1. TypeOK /\ SentPostable
    BY DEF LegInv
  <1>2. CASE Open \/ Posted
    <2>1. /\ legs' = EmptyLegs /\ texts' = Shown(EmptyLegs)
          /\ open' \in BOOLEAN /\ (sent' = sent \/ sent' = NoCall)
      BY <1>2 DEF Open, Posted
    <2>2. TypeOK'
      BY <1>1, <2>1, EmptyForm DEF TypeOK
    <2>3. SentPostable'
      BY <1>1, <2>1 DEF SentPostable
    <2>4. QED BY <2>2, <2>3 DEF LegInv
  <1>3. CASE AddLeg
    <2>1. EmptyLeg("Credit") \in Leg /\ EmptyText \in Text
      BY DEF EmptyLeg, Leg, Direction, EmptyText, Text
    <2>2. /\ legs' \in Seq(Leg) /\ Len(legs') = Len(legs) + 1
          /\ texts' \in Seq(Text) /\ Len(texts') = Len(texts) + 1
      BY <1>1, <1>3, <2>1, AppendProperties DEF AddLeg, TypeOK
    <2>3. TypeOK'
      BY <1>1, <1>3, <2>2, Fields DEF AddLeg, TypeOK
    <2>4. QED BY <1>1, <1>3, <2>3 DEF AddLeg, SentPostable, LegInv
  <1>4. CASE Submit
    <2>1. PICK amounts \in [DOMAIN legs -> UNION {Arrives(legs[i].cents) : i \in DOMAIN legs}] :
            /\ \A i \in DOMAIN legs : amounts[i] \in Arrives(legs[i].cents)
            /\ sent' = [ postable |-> Postable(amounts),
                         safe |-> WithinSafe,
                         asShown |-> \A i \in DOMAIN legs : Agree(i) ]
      BY <1>4, Zenon DEF Submit
    <2>2. sent' \in Call
      <3>1. \A p, f, a \in BOOLEAN :
              [postable |-> p, safe |-> f, asShown |-> a] \in Call
        BY DEF Call
      <3>2. /\ Postable(amounts) \in BOOLEAN /\ WithinSafe \in BOOLEAN
            /\ (\A i \in DOMAIN legs : Agree(i)) \in BOOLEAN
        BY Zenon DEF Postable, WithinSafe
      <3>3. QED BY <2>1, <3>1, <3>2, Zenon
    <2>3. TypeOK'
      BY <1>1, <1>4, <2>2 DEF Submit, TypeOK
    <2>4. SentPostable'
      <3>1. Ready
        BY <1>4 DEF Submit
      <3>2. WithinSafe => Postable(amounts)
        BY <1>1, <2>1, <3>1, ReadyIsPostable
      <3>3. sent'.safe = WithinSafe /\ sent'.postable = Postable(amounts)
        BY <2>1, Zenon
      <3>4. QED BY <3>2, <3>3, Zenon DEF SentPostable
    <2>5. QED BY <2>3, <2>4 DEF LegInv
  <1>5. CASE NotPosted \/ Close
    BY <1>1, <1>5 DEF NotPosted, Close, TypeOK, SentPostable, LegInv
  <1>6. ASSUME NEW i \in DOMAIN legs,
               \/ PickAccount(i) \/ PickDirection(i) \/ TypeAmount(i)
               \/ Blur(i) \/ RemoveLeg(i)
        PROVE  LegInv'
    <2>1. sent' = sent
      BY <1>6 DEF PickAccount, PickDirection, TypeAmount, Blur, RemoveLeg
    <2>2. TypeOK'
      BY <1>1, <1>6, EditType
    <2>3. QED BY <1>1, <2>1, <2>2 DEF SentPostable, LegInv
  <1>7. CASE UNCHANGED vars
    BY <1>1, <1>7 DEF vars, TypeOK, SentPostable, LegInv
  <1>8. QED BY <1>2, <1>3, <1>4, <1>5, <1>6, <1>7 DEF Next

(* However the legs are edited there is one input to each, and never fewer  *)
(* than two.                                                                *)
THEOREM LegsTyped == Spec => []TypeOK
  <1>1. LegInv => TypeOK
    BY DEF LegInv
  <1>2. QED BY InitLegInv, NextLegInv, <1>1, PTL DEF Spec

(* The form sends only what the server can read and the ledger would take,  *)
(* but for an amount that is no finite number and for sides that add up to  *)
(* more than 2^53 cents: the form's check in doubles against service.go's   *)
(* in int64s.                                                               *)
THEOREM SentPostableHolds == Spec => []SentPostable
  <1>1. LegInv => SentPostable
    BY DEF LegInv
  <1>2. QED BY InitLegInv, NextLegInv, <1>1, PTL DEF Spec

-----------------------------------------------------------------------------
(* The amounts shown and the cents held.                                    *)
LegibleBlur(i) == Blur(i) /\ (legs[i].cents = Infinity \/ Magnitude(legs[i].cents) <= Legible)

LEMMA EditAgrees ==
  ASSUME TypeOK, TextsAgree, NEW i \in DOMAIN legs,
         PickAccount(i) \/ PickDirection(i) \/ TypeAmount(i) \/ LegibleBlur(i)
  PROVE  TextsAgree'
  <1>1. \A j \in DOMAIN legs : ParseDollars(texts[j]) = legs[j].cents
    BY DEF TextsAgree, Agree
  <1> SUFFICES /\ DOMAIN legs' = DOMAIN legs
               /\ \A j \in DOMAIN legs : ParseDollars(texts'[j]) = legs'[j].cents
    BY DEF TextsAgree, Agree
  <1>2. CASE PickAccount(i) \/ PickDirection(i)
    <2>1. /\ DOMAIN legs' = DOMAIN legs /\ texts' = texts
          /\ \A j \in DOMAIN legs : legs'[j].cents = legs[j].cents
      BY <1>2, Fields DEF PickAccount, PickDirection, Leg
    <2>2. QED BY <1>1, <2>1
  <1>3. CASE TypeAmount(i)
    <2>1. PICK text \in Typed :
            /\ texts' = [texts EXCEPT ![i] = text]
            /\ legs' = [legs EXCEPT ![i].cents = ParseDollars(text)]
      BY <1>3 DEF TypeAmount
    <2>2. texts'[i] = text /\ legs'[i].cents = ParseDollars(text)
      BY <2>1, Fields DEF Leg
    <2>3. DOMAIN legs' = DOMAIN legs
      BY <2>1
    <2>4. \A j \in DOMAIN legs : j # i => texts'[j] = texts[j] /\ legs'[j] = legs[j]
      BY <2>1, Fields
    <2>5. QED BY <1>1, <2>2, <2>3, <2>4
  <1>4. CASE LegibleBlur(i)
    <2>1. PICK text \in CentsToInput(ParseDollars(texts[i])) : texts' = [texts EXCEPT ![i] = text]
      BY <1>4 DEF LegibleBlur, Blur
    <2>2. legs' = legs /\ ParseDollars(texts[i]) # Null /\ texts[i] \in Text
      BY <1>4, Fields DEF LegibleBlur, Blur
    <2>3. ParseDollars(texts[i]) = Infinity \/ Magnitude(ParseDollars(texts[i])) <= Legible
      BY <1>1, <1>4 DEF LegibleBlur
    <2>4. ParseDollars(text) = ParseDollars(texts[i])
      BY <2>1, <2>2, <2>3, TextFields
    <2>5. ParseDollars(texts'[i]) = ParseDollars(texts[i])
      BY <2>1, <2>4, Fields
    <2>6. \A j \in DOMAIN legs : j # i => texts'[j] = texts[j]
      BY <2>1, Fields
    <2>7. QED BY <1>1, <2>2, <2>5, <2>6
  <1>5. QED BY <1>2, <1>3, <1>4

(* Removing the last leg takes its own input away.                          *)
LEMMA RemoveLastAgrees ==
  ASSUME TypeOK, TextsAgree, RemoveLeg(Len(legs))
  PROVE  TextsAgree'
  <1>1. Len(legs) \in DOMAIN legs /\ Len(legs) \in Nat /\ DOMAIN legs = 1..Len(legs)
    BY Fields DEF RemoveLeg
  <1>2. /\ legs' \in Seq(Leg) /\ Len(legs') = Len(legs) - 1
        /\ \A j \in 1..(Len(legs) - 1) : texts'[j] = texts[j] /\ legs'[j] = legs[j]
    BY <1>1, LegRemoved
  <1>3. DOMAIN legs' = 1..(Len(legs) - 1)
    BY <1>2, LenProperties
  <1>4. \A j \in DOMAIN legs' : j \in DOMAIN legs /\ texts'[j] = texts[j] /\ legs'[j] = legs[j]
    BY <1>1, <1>2, <1>3
  <1>5. QED BY <1>4 DEF TextsAgree, Agree

(* The one way in which what is shown and what is held can part: removing a *)
(* leg that is not the last, in PostTransactionForm.                        *)
LEMMA OnlyRemoval ==
  ASSUME TypeOK, [Next]_vars, TextsAgree, ~TextsAgree'
  PROVE  \E i \in DOMAIN legs :
            \/ i # Len(legs) /\ RemoveLeg(i)
            \/ Blur(i) /\ legs[i].cents # Infinity /\ Magnitude(legs[i].cents) > Legible
  <1>1. CASE Open \/ Posted
    <2>1. legs' = EmptyLegs /\ texts' = Shown(EmptyLegs)
      BY <1>1 DEF Open, Posted
    <2>2. TextsAgree'
      BY <2>1, EmptyForm DEF TextsAgree, Agree
    <2>3. QED BY <2>2
  <1>2. CASE AddLeg
    <2>1. /\ EmptyLeg("Credit") \in Leg /\ EmptyText \in Text
          /\ ParseDollars(EmptyText) = EmptyLeg("Credit").cents
      BY DEF EmptyLeg, Leg, Direction, EmptyText, Text, ParseDollars
    <2>2. /\ legs' = Append(legs, EmptyLeg("Credit")) /\ texts' = Append(texts, EmptyText)
          /\ legs \in Seq(Leg) /\ texts \in Seq(Text) /\ Len(texts) = Len(legs)
          /\ Len(legs) \in Nat /\ DOMAIN legs = 1..Len(legs)
      BY <1>2, Fields DEF AddLeg, TypeOK
    <2>3. /\ legs' \in Seq(Leg) /\ Len(legs') = Len(legs) + 1
          /\ legs'[Len(legs) + 1] = EmptyLeg("Credit")
          /\ texts'[Len(legs) + 1] = EmptyText
          /\ \A j \in 1..Len(legs) : legs'[j] = legs[j] /\ texts'[j] = texts[j]
      BY <2>1, <2>2, AppendProperties
    <2>4. DOMAIN legs' = 1..(Len(legs) + 1)
      BY <2>3, LenProperties
    <2>5. TextsAgree'
      <3> SUFFICES ASSUME NEW j \in 1..(Len(legs) + 1)
                   PROVE  ParseDollars(texts'[j]) = legs'[j].cents
        BY <2>4 DEF TextsAgree, Agree
      <3>1. CASE j = Len(legs) + 1
        BY <2>1, <2>3, <3>1
      <3>2. CASE j \in 1..Len(legs)
        BY <2>2, <2>3, <3>2 DEF TextsAgree, Agree
      <3>3. QED BY <2>2, <3>1, <3>2
    <2>6. QED BY <2>5
  <1>3. CASE Close \/ Submit \/ NotPosted \/ UNCHANGED vars
    <2>1. legs' = legs /\ texts' = texts
      BY <1>3 DEF Close, Submit, NotPosted, vars
    <2>2. QED BY <2>1 DEF TextsAgree, Agree
  <1>4. ASSUME NEW i \in DOMAIN legs, PickAccount(i) \/ PickDirection(i) \/ TypeAmount(i) \/ LegibleBlur(i)
        PROVE  FALSE
    BY <1>4, EditAgrees
  <1>5. ASSUME NEW i \in DOMAIN legs, RemoveLeg(i)
        PROVE  i # Len(legs)
    BY <1>5, RemoveLastAgrees
  <1>6. ASSUME NEW i \in DOMAIN legs, Blur(i), ~LegibleBlur(i)
        PROVE  legs[i].cents # Infinity /\ Magnitude(legs[i].cents) > Legible
    <2>1. legs[i].cents # Infinity /\ ~(Magnitude(legs[i].cents) <= Legible)
      BY <1>6 DEF LegibleBlur
    <2>2. legs[i].cents = ParseDollars(texts[i]) /\ ParseDollars(texts[i]) # Null
      BY <1>6 DEF TextsAgree, Agree, Blur
    <2>3. legs[i].cents \in Amount \cup {Null}
      BY Fields DEF Leg
    <2>4. legs[i].cents \in Int
      BY <2>1, <2>2, <2>3, AmountAssumption DEF Amount
    <2>5. Magnitude(legs[i].cents) \in Int /\ Legible \in Int
      BY <2>4, AmountAssumption DEF Magnitude, Legible
    <2>6. QED BY <2>1, <2>5
  <1>7. QED BY <1>1, <1>2, <1>3, <1>4, <1>5, <1>6, Zenon DEF Next

(* Typing, adding a leg, closing and opening the form, an answer, and       *)
(* leaving the input of an amount up to 2^51 cents, keep what is shown and  *)
(* what is held together.                                                   *)
THEOREM OnlyRemovalPartsHolds == Spec => OnlyRemovalParts
  <1>1. LegInv /\ [Next]_vars =>
          [ TextsAgree /\ ~TextsAgree' =>
              \E i \in DOMAIN legs :
                  \/ i # Len(legs) /\ RemoveLeg(i)
                  \/ Blur(i) /\ legs[i].cents # Infinity /\ Magnitude(legs[i].cents) > Legible ]_vars
    BY OnlyRemoval DEF LegInv
  <1>2. QED BY InitLegInv, NextLegInv, <1>1, PTL DEF Spec, OnlyRemovalParts

=============================================================================
