--------------------------- MODULE RecordContracts --------------------------
(***************************************************************************)
(* parser/*_parser.py and the validate_*_record functions of importer.py:  *)
(* which physical records become rows, which rows, and which rows an       *)
(* importer that was handed them still refuses.                            *)
(*                                                                         *)
(* A record is [type, kubun, made, id, body, slots, time, n, wire]:        *)
(*   id     the official key ("r1", "r2"), one no rule of the domain       *)
(*          admits ("odd") or blanks ("blank");                            *)
(*   body   the fields after the key: "official", "blank", "odd" (decodes, *)
(*          but some field is outside its domain) or "raw" (not CP932);    *)
(*   slots  the horses or combinations a repeated array holds;             *)
(*   time   the announced time of an odds snapshot, 0 when blank;          *)
(*   n      which version of the values it carries;                        *)
(*   wire   whether it comes as bytes or as rows a caller built.           *)
(* A parser gives the slots its rows are filed under: "row" for a type of  *)
(* one row, "head" for a row that names no horse, "total" for the sentinel *)
(* that keeps the totals; {} means the record is refused.                  *)
(***************************************************************************)
EXTENDS StatusDomain, Naturals

OfficialIds == {"r1", "r2"}

MiningTypes == {"DM", "TM"}
VoteTypes == {"H1", "H6"}
ExpandedTypes == OddsTypes \cup VoteTypes \cup MiningTypes \cup {"WH"}
\* ALL_RECORD_TYPES of the parser factory.
RecordTypes ==
    {"AV", "BN", "BR", "BT", "CC", "CH", "CK", "CS", "HC", "HN", "HR", "HS", "HY", "JC", "JG",
     "KS", "RA", "RC", "SE", "SK", "TC", "TK", "UM", "WC", "WE", "WF", "YS"} \cup ExpandedTypes

Dictionaries ==
    [type : RecordTypes, kubun : STRING, made : {"old", "new", "unreadable"}, id : STRING,
     body : {"official", "blank", "odd", "raw"}, slots : SUBSET (STRING \ {"head"}), time : Nat,
     n : STRING \ {"odd", "erased"}, wire : BOOLEAN]

Accumulated(p) == validate_record_header(p, "accumulated")
Decoded(p) == p.body # "raw"
Key(p) == p.id \in OfficialIds
Official(p) == p.body = "official"
Erase(p) == p.kubun = "0"

Fixed(p) == Decoded(p) /\ Accumulated(p)

Rows(accepted, slots) == IF accepted THEN slots ELSE {}
One(accepted) == Rows(accepted, {"row"})
Combinations(p) == IF p.slots = {} THEN {"total"} ELSE p.slots

---------------------------------------------------------------------------
(* validate_current_fields of each parser that has one: what an official   *)
(* row looks like, for the parser as for the importer.  An erase is its    *)
(* key.                                                                    *)

KeyedBody(p) == Key(p) /\ (Erase(p) \/ Official(p))

av_fields(p) == KeyedBody(p)
jc_fields(p) == KeyedBody(p)
we_fields(p) == KeyedBody(p)
cc_fields(p) == p.kubun = "1" /\ Key(p) /\ Official(p)
tc_fields(p) == p.kubun = "1" /\ Key(p) /\ Official(p)
hc_fields(p) == KeyedBody(p)
hn_fields(p) == KeyedBody(p)
hs_fields(p) == KeyedBody(p)
sk_fields(p) == KeyedBody(p)
um_fields(p) == KeyedBody(p)
odds_fields(p) == KeyedBody(p)
hr_fields(p) == Key(p) /\ (p.kubun \in {"0", "9"} \/ Official(p))
se_fields(p) == Key(p) /\ (Erase(p) \/ Decoded(p))
cs_fields(p) == Key(p) /\ (Erase(p) \/ Decoded(p))
BlankVotes(p) == p.body = "blank" /\ p.kubun = "9"
h1_fields(p) == KeyedBody(p) \/ (Key(p) /\ BlankVotes(p))
h6_fields(p) == KeyedBody(p) \/ (Key(p) /\ BlankVotes(p))

\* The winners' body: initial values before the draw, complete once it is
\* settled, either in between.
wf_body(p) == CASE p.kubun = "0" -> TRUE
                [] p.kubun = "1" -> p.body = "blank"
                [] p.kubun \in {"3", "7"} -> Official(p)
                [] OTHER -> p.body \in {"official", "blank"}

---------------------------------------------------------------------------
(* One operator per parser. *)

av(p) == One(Fixed(p) /\ av_fields(p))
jc(p) == One(Fixed(p) /\ jc_fields(p))
we(p) == One(Fixed(p) /\ we_fields(p))
cc(p) == One(Fixed(p) /\ cc_fields(p))
tc(p) == One(Fixed(p) /\ tc_fields(p))

bn(p) == One(Fixed(p))
br(p) == One(Fixed(p))
bt(p) == One(Fixed(p))
ch(p) == One(Fixed(p))
hy(p) == One(Fixed(p))
ra(p) == One(Fixed(p))
rc(p) == One(Fixed(p))
um(p) == One(Fixed(p))
ys(p) == One(Fixed(p))

ck(p) == One(Fixed(p) /\ Key(p) /\ (Erase(p) \/ Official(p)))
cs(p) == One(Fixed(p) /\ cs_fields(p))
se(p) == One(Fixed(p) /\ Key(p))
jg(p) == One(Fixed(p) /\ Key(p) /\ (Official(p) \/ (Erase(p) /\ p.body = "blank")))
wc(p) == One(Fixed(p) /\ Key(p) /\ (Erase(p) \/ Official(p)))
ks(p) == One(Fixed(p) /\ Key(p) /\ Official(p))
tk(p) == One(Fixed(p) /\ Key(p) /\ Official(p))

\* The body of an erase stays sealed: it need not even decode.
hc(p) == One(Accumulated(p) /\ hc_fields(p))
hn(p) == One(Accumulated(p) /\ hn_fields(p))
hs(p) == One(Accumulated(p) /\ hs_fields(p))
sk(p) == One(Accumulated(p) /\ sk_fields(p))
hr(p) == One(Accumulated(p) /\ hr_fields(p))

dm(p) == IF Erase(p) THEN Rows(Fixed(p) /\ Key(p) /\ p.slots = {}, {"head"})
                     ELSE Rows(Fixed(p) /\ Key(p) /\ Official(p), p.slots)
tm(p) == IF Erase(p) THEN Rows(Fixed(p) /\ Key(p) /\ p.slots = {}, {"head"})
                     ELSE Rows(Fixed(p) /\ Key(p) /\ Official(p), p.slots)
wh(p) == IF p.slots # {} THEN Rows(Fixed(p) /\ Key(p) /\ p.body \in {"official", "blank"}, p.slots)
                         ELSE Rows(Fixed(p) /\ Key(p) /\ Erase(p), {"head"})

h1(p) == Rows(Fixed(p), p.slots \cup {"total"})
h6(p) == IF Erase(p) THEN Rows(Accumulated(p), {"total"})
         ELSE Rows(Fixed(p) /\ (Official(p) \/ BlankVotes(p)), Combinations(p))

o1(p) == Rows(Fixed(p), Combinations(p))
o2(p) == Rows(Fixed(p), Combinations(p))
o3(p) == Rows(Fixed(p), Combinations(p))
o4(p) == Rows(Fixed(p), Combinations(p))
o5(p) == Rows(Fixed(p), Combinations(p))
o6(p) == Rows(Fixed(p), Combinations(p))

wf(p) == One(Fixed(p) /\ Key(p) /\ wf_body(p))

\* ParserFactory.parse: the parser of the record's type; anything a parser
\* raises or refuses is no row at all.
Parse(p) ==
    CASE p.type = "AV" -> av(p) [] p.type = "BN" -> bn(p) [] p.type = "BR" -> br(p)
      [] p.type = "BT" -> bt(p) [] p.type = "CC" -> cc(p) [] p.type = "CH" -> ch(p)
      [] p.type = "CK" -> ck(p) [] p.type = "CS" -> cs(p) [] p.type = "DM" -> dm(p)
      [] p.type = "H1" -> h1(p) [] p.type = "H6" -> h6(p) [] p.type = "HC" -> hc(p)
      [] p.type = "HN" -> hn(p) [] p.type = "HR" -> hr(p) [] p.type = "HS" -> hs(p)
      [] p.type = "HY" -> hy(p) [] p.type = "JC" -> jc(p) [] p.type = "JG" -> jg(p)
      [] p.type = "KS" -> ks(p) [] p.type = "O1" -> o1(p) [] p.type = "O2" -> o2(p)
      [] p.type = "O3" -> o3(p) [] p.type = "O4" -> o4(p) [] p.type = "O5" -> o5(p)
      [] p.type = "O6" -> o6(p) [] p.type = "RA" -> ra(p) [] p.type = "RC" -> rc(p)
      [] p.type = "SE" -> se(p) [] p.type = "SK" -> sk(p) [] p.type = "TC" -> tc(p)
      [] p.type = "TK" -> tk(p) [] p.type = "TM" -> tm(p) [] p.type = "UM" -> um(p)
      [] p.type = "WC" -> wc(p) [] p.type = "WE" -> we(p) [] p.type = "WF" -> wf(p)
      [] p.type = "WH" -> wh(p) [] p.type = "YS" -> ys(p)

---------------------------------------------------------------------------
(* The importer's own validation of a row, whoever built it.  What does    *)
(* not fit a CP932 span counts as "raw" there.                             *)

validate_av_record(p) == av_fields(p)
validate_jc_record(p) == jc_fields(p)
validate_we_record(p) == we_fields(p)
validate_cc_record(p) == cc_fields(p)
validate_tc_record(p) == tc_fields(p)
validate_hc_record(p) == hc_fields(p)
validate_hn_record(p) == hn_fields(p)
validate_hs_record(p) == hs_fields(p)
validate_sk_record(p) == sk_fields(p)
validate_hr_record(p) == hr_fields(p)
validate_se_record(p) == se_fields(p)
validate_um_record(p) == um_fields(p)
validate_h1_record(p) == h1_fields(p)
validate_h6_record(p) == h6_fields(p)
validate_odds_record(p) == odds_fields(p)
validate_jg_record(p) == Key(p) /\ (Official(p) \/ (Erase(p) /\ p.body = "blank"))
validate_wc_record(p) == Key(p) /\ (Erase(p) \/ Official(p))
validate_wf_record(p) == Key(p) /\ wf_body(p)

Validated(p) ==
    CASE p.type = "AV" -> validate_av_record(p) [] p.type = "JC" -> validate_jc_record(p)
      [] p.type = "WE" -> validate_we_record(p) [] p.type = "CC" -> validate_cc_record(p)
      [] p.type = "TC" -> validate_tc_record(p) [] p.type = "HC" -> validate_hc_record(p)
      [] p.type = "HN" -> validate_hn_record(p) [] p.type = "HS" -> validate_hs_record(p)
      [] p.type = "SK" -> validate_sk_record(p) [] p.type = "HR" -> validate_hr_record(p)
      [] p.type = "SE" -> validate_se_record(p) [] p.type = "CS" -> cs_fields(p)
      [] p.type = "UM" -> validate_um_record(p) [] p.type = "H1" -> validate_h1_record(p)
      [] p.type = "H6" -> validate_h6_record(p) [] p.type = "JG" -> validate_jg_record(p)
      [] p.type = "WC" -> validate_wc_record(p) [] p.type = "WF" -> validate_wf_record(p)
      [] p.type \in OddsTypes -> validate_odds_record(p)
      [] OTHER -> TRUE

validate_import_record_header(p) == Accumulated(p) /\ Validated(p)

---------------------------------------------------------------------------
(* What the rows hold. *)

\* The slots a caller that builds rows itself files them under.
Shape(p) == CASE p.type \in OddsTypes \cup {"H6"} -> Combinations(p)
              [] p.type = "H1" -> p.slots \cup {"total"}
              [] p.type \in MiningTypes \cup {"WH"} -> IF p.slots = {} THEN {"head"} ELSE p.slots
              [] OTHER -> {"row"}

Incoming(p) == IF p.wire THEN Parse(p) ELSE Shape(p)

\* Types whose layout is all that anything checks, and the contract of the rest.
Unruled == {"BN", "BR", "BT", "CH", "HY", "RA", "RC", "YS"}
InContract(p) ==
    \/ p.type \in Unruled
    \/ /\ Key(p)
       /\ CASE p.type \in {"SE", "CS"} -> Decoded(p)
            [] p.type = "WF" -> wf_body(p)
            [] p.type = "WH" -> p.body \in {"official", "blank"}
            [] p.type = "HR" -> p.kubun = "9" \/ Official(p)
            [] p.type \in VoteTypes -> Official(p) \/ BlankVotes(p)
            [] OTHER -> Official(p)

=============================================================================
