----------------------------- MODULE MCLogTail -----------------------------
(* LogTail for TLC: two logs of two lines.                                 *)
EXTENDS LogTail

Line(type, code, zone, ends) == [rtype |-> type, rcode |-> code, zone |-> zone, ends |-> ends]

\* In the first log two lines of a type, with codes that are not in the table;
\* in the second a line without a zone and one whose type is not in the table.
MCLog == {<<Line("NAPTR", "YXDOMAIN", TRUE, <<"before zone", "in zone">>),
            Line("NAPTR", "BADVERS", TRUE, <<"in first", "before rcode">>)>>,
          <<Line("MX", "NXDOMAIN", FALSE, <<"in first", "in first">>),
            Line("PTR", "NXDOMAIN", TRUE, <<"in first", "in zone">>)>>}

\* A log of two complete lines, the second a query for an address's name.
MCTypes == {<<Line("MX", "NOERROR", TRUE, <<"before rcode", "in zone">>),
              Line("PTR", "NOERROR", TRUE, <<"before rcode", "in zone">>)>>}
=============================================================================
