-------------------------------- MODULE Books -------------------------------
(***************************************************************************)
(* What the ledger promises.  The books are the records, and an equity per *)
(* open currency.  One step enters, amends or strikes ONE record and moves *)
(* every equity by exactly the difference this makes to the record's       *)
(* contribution; an observer never sees a record without its money or      *)
(* money without its record.  The promise holds while the books are sound; *)
(* once they are not, nothing is promised and they never are again.        *)
(***************************************************************************)
EXTENDS Records

CONSTANT Ids

VARIABLES status, equity, records, sound

vars == <<status, equity, records, sound>>

Init ==
  /\ status \in [Currencies -> {"new", "open"}]
  /\ equity  = [c \in Currencies |-> 0]
  /\ records = [i \in Ids |-> None]
  /\ sound   = TRUE

\* The money of the step follows the change of record i.
MoneyFollows(i) ==
  /\ \A k \in Ids \ {i} : records'[k] = records[k]
  /\ equity' = [c \in Currencies |->
                  equity[c] + Effect(records'[i], c) - Effect(records[i], c)]
  /\ UNCHANGED status

InOpenCurrencies(rec) == \A c \in CurrenciesOf(rec.legs) : status[c] = "open"

Enter(i) ==
  /\ records[i] = None /\ records'[i] # None
  /\ InOpenCurrencies(records'[i])
  /\ MoneyFollows(i)

Amend(i) ==
  /\ records[i] # None /\ records'[i] # None
  /\ records'[i].kind = records[i].kind
  /\ InOpenCurrencies(records'[i])
  /\ MoneyFollows(i)

Strike(i) ==
  /\ records[i] # None /\ records'[i] = None
  /\ MoneyFollows(i)

Open(c) ==
  /\ status[c] = "new"
  /\ status' = [status EXCEPT ![c] = "open"]
  /\ UNCHANGED <<equity, records>>

Close(c) ==
  /\ status[c] = "open"
  /\ \A i \in Ids : records[i] # None => c \notin CurrenciesOf(records[i].legs)
  /\ status' = [status EXCEPT ![c] = "closed"]
  /\ UNCHANGED <<equity, records>>

Next ==
  \/ /\ sound /\ sound'
     /\ \/ \E i \in Ids : Enter(i) \/ Amend(i) \/ Strike(i)
        \/ \E c \in Currencies : Open(c) \/ Close(c)
  \/ ~sound'

Spec == Init /\ [][Next]_vars

=============================================================================
