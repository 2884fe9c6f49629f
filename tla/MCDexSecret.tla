---------------------------- MODULE MCDexSecret ----------------------------
(* DexSecret with one version of the settings for every way they can be     *)
(* accepted or rejected.                                                    *)
EXTENDS DexSecret

Complete == [ type |-> "LDAP", protocol |-> "ldaps", bindType |-> "search_bind",
              host |-> TRUE, bindDN |-> TRUE, bindPwd |-> "p1", caCert |-> TRUE,
              userSearch |-> TRUE, groups |-> << >> ]

One      == << <<"cn=a", "ou=g">> >>
NoComma  == << <<"cn=a">> >>
NoneThen == << <<"cn=a", "none">>, <<"cn=b", "ou=g">> >>
TwoBases == << <<"cn=a", "ou=g">>, <<"cn=b", "ou=h">> >>

MCSources ==
    { Complete,
      [Complete EXCEPT !.type = "Active Directory", !.bindPwd = "p2", !.groups = One],
      [Complete EXCEPT !.protocol = "none", !.groups = NoneThen],
      [Complete EXCEPT !.protocol = "starttls", !.caCert = FALSE, !.groups = TwoBases],
      [Complete EXCEPT !.protocol = "tls", !.bindDN = FALSE],
      [Complete EXCEPT !.type = "NIS"],
      [Complete EXCEPT !.bindType = "direct_bind"],
      [Complete EXCEPT !.bindPwd = ""],
      [Complete EXCEPT !.groups = NoComma],
      [Complete EXCEPT !.host = FALSE],
      [Complete EXCEPT !.userSearch = FALSE] }
=============================================================================
