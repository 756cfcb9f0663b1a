---------------------------- MODULE StatusDomain ----------------------------
(***************************************************************************)
(* parser/status_domain.py: the statuses (DataKubun) each record type may  *)
(* carry, for accumulated and for realtime data, and the generations whose *)
(* extra status is proved by the date the record was made on.              *)
(*                                                                         *)
(* made is "old" or "new" with respect to the boundary of the record's own *)
(* type, or "unreadable" when no date can be read; a status that is        *)
(* missing, or whose current and legacy names disagree, is "?".            *)
(***************************************************************************)

OddsTypes == {"O1", "O2", "O3", "O4", "O5", "O6"}

CURRENT_ACCUMULATED_DATA_KUBUN(t) ==
    CASE t \in {"CC", "JC", "TC", "WE", "WH"} -> {"1"}
      [] t = "AV" -> {"1", "2"}
      [] t \in {"HC", "HS", "HY", "JG", "RC", "WC"} -> {"0", "1"}
      [] t \in {"BN", "BR", "BT", "CH", "CK", "CS", "HN", "KS", "SK", "TK"} -> {"0", "1", "2"}
      [] t = "HR" -> {"0", "1", "2", "9"}
      [] t \in {"H1", "H6"} -> {"0", "2", "4", "5", "9"}
      [] t \in {"DM", "TM"} -> {"0", "1", "2", "3", "7"}
      [] t = "YS" -> {"0", "1", "2", "3", "9"}
      [] t = "UM" -> {"0", "1", "2", "3", "4", "9"}
      [] t = "WF" -> {"0", "1", "2", "3", "7", "9"}
      [] t \in OddsTypes -> {"0", "1", "2", "3", "4", "5", "9"}
      [] t \in {"RA", "SE"} -> {"0", "1", "2", "3", "4", "5", "6", "7", "9", "A", "B"}

CURRENT_REALTIME_DATA_KUBUN(t) ==
    CURRENT_ACCUMULATED_DATA_KUBUN(t) \ (IF t \in {"DM", "TM", "WF"} THEN {"7"} ELSE {})

HISTORICAL_DATA_KUBUN ==
    {<<"AV", "0">>, <<"JC", "0">>, <<"RC", "2">>, <<"WE", "0">>, <<"WH", "0">>}

CURRENT_DATA_KUBUN_NOT_BEFORE == {<<"UM", "9">>}

_current_values(t, context) ==
    IF context = "realtime" THEN CURRENT_REALTIME_DATA_KUBUN(t)
                            ELSE CURRENT_ACCUMULATED_DATA_KUBUN(t)

Before(made) == made = "old"

\* A status of today's contract, unless it is younger than the record; or one
\* of an earlier generation, when the record is provably that old.
validate_data_kubun(t, kubun, made, context) ==
    IF kubun \in _current_values(t, context)
    THEN ~ (<<t, kubun>> \in CURRENT_DATA_KUBUN_NOT_BEFORE /\ Before(made))
    ELSE <<t, kubun>> \in HISTORICAL_DATA_KUBUN /\ Before(made)

Resolved(kubun) == kubun # "?"

validate_record_header(p, context) ==
    /\ Resolved(p.kubun)
    /\ validate_data_kubun(p.type, p.kubun, p.made, context)

=============================================================================
