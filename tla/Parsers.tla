------------------------------- MODULE Parsers -------------------------------
(***************************************************************************)
(* The file formats: api/loader.go (transactions) and internal/ingest (one *)
(* settlement format per acquirer).  A parser turns a whole file into      *)
(* records or rejects it whole.                                            *)
(*                                                                         *)
(* A file is the text of an upload seen through its framing and its        *)
(* columns.  "framed" says that the header carries every required column   *)
(* (CSV) or that the body decodes as an array of objects (JSON).  An       *)
(* amount column holds decimal text; a date column holds the value its     *)
(* conversion yields.  Either may be Malformed: a bad date, text that is   *)
(* no decimal, a JSON string where a number must stand, a row too short to *)
(* have the column.                                                        *)
(***************************************************************************)
EXTENDS Schedule, Money, Sequences

CONSTANTS TxnIds,       \* transaction references that occur in files (strings)
          TrimSpace     \* strings.TrimSpace, on these references

ASSUME TrimAssumption == TrimSpace \in [TxnIds -> TxnIds]

Blank == ""             \* an empty reference

Column(T) == T \cup {Malformed}

TxnRow == [ID              : TxnIds,
           Acquirer        : STRING,
           amount          : Column(Decimal),
           Currency        : STRING,
           TransactionDate : Column(Int)]

\* paid is a Bangkok day in the CSV formats, an instant in the JSON format; it
\* also stands for the row's transaction date, which must convert but is read
\* by nothing afterwards.
SettlementRow == [ref  : TxnIds,
                  gross: Column(Decimal), fee: Column(Decimal), net: Column(Decimal),
                  paid : Column(Int)]

FileOf(Row) == [framed: BOOLEAN, rows: Seq(Row)]

-----------------------------------------------------------------------------
\* LoadTransactionsCSV returns no error.
LoadsTransactions(file) ==
    /\ file.framed
    /\ \A i \in DOMAIN file.rows :
          Converts(file.rows[i].amount) /\ file.rows[i].TransactionDate # Malformed

\* The loader trims the ID.  (It trims the acquirer and the currency too,
\* which nobody tells apart: these columns hold the trimmed text.)
TransactionOf(row) ==
    [ID              |-> TrimSpace[row.ID],
     Acquirer        |-> row.Acquirer,
     AmountMinor     |-> ParseMinorUnits(row.amount),
     Currency        |-> row.Currency,
     TransactionDate |-> row.TransactionDate]

\* LoadTransactionsCSV's records, in file order; the expected settlement date
\* is filled in by the caller.
LoadTransactionsCSV(file) == [i \in DOMAIN file.rows |-> TransactionOf(file.rows[i])]

-----------------------------------------------------------------------------
\* What the acquirer's format admits as an amount.
AcceptsAmount(acquirer, d) ==
    /\ Converts(d)
    /\ acquirer = Prompt => JSONNumber(d)

\* Faulty variant of AmountsAgree: the net amount is taken on trust.
AnyAmounts(row) == TRUE

\* gross - fee = net, in 64 bits.
AmountsAgree(row) ==
    Wrap(ParseMinorUnits(row.gross) - ParseMinorUnits(row.fee)) = ParseMinorUnits(row.net)

\* The acquirer's parser returns no error.  Only the JSON parser insists on a
\* reference.
ParsesSettlements(acquirer, file) ==
    /\ file.framed
    /\ \A i \in DOMAIN file.rows :
          LET row == file.rows[i] IN
          /\ row.paid # Malformed
          /\ \A d \in {row.gross, row.fee, row.net} : AcceptsAmount(acquirer, d)
          /\ AmountsAgree(row)
          /\ acquirer = Prompt => row.ref # Blank

\* CSV dates are Bangkok days; the JSON format carries instants with an offset.
SettlementInstant(acquirer, row) ==
    IF acquirer = Prompt THEN row.paid ELSE BangkokInstant(row.paid)

\* The settlement parsers take the reference as it stands, spaces included.
SettlementRecordOf(acquirer, row) ==
    [TransactionID  |-> row.ref,
     Acquirer       |-> acquirer,
     GrossMinor     |-> ParseMinorUnits(row.gross),
     FeeMinor       |-> ParseMinorUnits(row.fee),
     NetMinor       |-> ParseMinorUnits(row.net),
     SettlementDate |-> SettlementInstant(acquirer, row)]

ParseSettlements(acquirer, file) ==
    [i \in DOMAIN file.rows |-> SettlementRecordOf(acquirer, file.rows[i])]
=============================================================================
