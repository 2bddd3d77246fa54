----------------------------- MODULE RedirectUri -----------------------------
(***************************************************************************)
(* ValidateRedirectUri (src/src/utils/utils.go): whether the redirect_uri   *)
(* of a login or logout request is one of those the configuration lists,    *)
(* with the wildcards an operator may opt into.                             *)
(*                                                                         *)
(* A URI is a sequence of tokens: punctuation, the escapes of "/", "." and  *)
(* control characters, and words (letters, digits, "-" and "_").            *)
(***************************************************************************)
EXTENDS Integers, Sequences, SequencesExt

CONSTANT Words

Dots == {".", "%2e"}
Separators == {"/", "%2f"}
Enders == Separators \cup {";", "%00"}
Reserved == {"/", "?", "#"}   \* what ends the authority
Punctuation == Dots \cup Enders \cup Reserved \cup {":", "@", "*"}

ASSUME WordsAssumption == Words \cap Punctuation = {}

Uri == Seq(Words \cup Punctuation)

\* Where the first of the tokens is, 0 if there is none.
IndexAny(uri, tokens) == SelectInSeq(uri, LAMBDA t : t \in tokens)
From(uri, i) == SubSeq(uri, i, Len(uri))
TrimSuffix(uri, t) == IF uri # <<>> /\ Last(uri) = t THEN Front(uri) ELSE uri
HasSuffix(uri, t) == uri # <<>> /\ Last(uri) = t

\* Where "://" occurs.
SchemeSeparators(uri) == {i \in 1..(Len(uri) - 2) : SubSeq(uri, i, i + 2) = <<":", "/", "/">>}

Relative(uri) == [absolute |-> FALSE, scheme |-> <<>>, authority |-> <<>>, path |-> uri]
Absolute(uri, sep, end) ==
  [absolute |-> TRUE, scheme |-> SubSeq(uri, 1, sep - 1),
   authority |-> SubSeq(uri, sep + 3, end), path |-> From(uri, end + 1)]

\* Fault: a question mark does not end the authority.
SplitSchemeAuthorityPath_Fault(uri) ==
  LET sep == Min(SchemeSeparators(uri))
      cut == IndexAny(From(uri, sep + 3), {"/", "#"})
  IN  IF SchemeSeparators(uri) = {} THEN Relative(uri)
      ELSE Absolute(uri, sep, IF cut = 0 THEN Len(uri) ELSE sep + 1 + cut)

SplitSchemeAuthorityPath(uri) ==
  LET sep == Min(SchemeSeparators(uri))
      cut == IndexAny(From(uri, sep + 3), Reserved)
  IN  IF SchemeSeparators(uri) = {} THEN Relative(uri)
      ELSE Absolute(uri, sep, IF cut = 0 THEN Len(uri) ELSE sep + 1 + cut)

\* unsafePathPattern: a separator, two dots, and a separator, ";", a control
\* character or the end.
UnsafePath(path) ==
  \E i \in 1..(Len(path) - 2) :
    /\ path[i] \in Separators /\ path[i + 1] \in Dots /\ path[i + 2] \in Dots
    /\ i + 3 \in DOMAIN path => path[i + 3] \in Enders

StripQueryAndFragment(path) ==
  LET cut == IndexAny(path, {"?", "#"}) IN IF cut = 0 THEN path ELSE SubSeq(path, 1, cut - 1)

\* Fault: a wildcard is honored although the template has a query.
MatchPathTemplate_Fault(path, template) ==
  LET prefix == TrimSuffix(template, "*")
      value == StripQueryAndFragment(path)
  IN  \/ path = template
      \/ HasSuffix(template, "*")
         /\ (IsPrefix(prefix, path) \/ value = TrimSuffix(prefix, "/"))

MatchPathTemplate(path, template) ==
  LET prefix == TrimSuffix(template, "*")
      value == StripQueryAndFragment(path)
  IN  \/ path = template
      \/ /\ HasSuffix(template, "*") /\ IndexAny(template, {"?", "#"}) = 0
         /\ IsPrefix(prefix, value) \/ value = TrimSuffix(prefix, "/")

\* The regular expression made of the template: "*" is one or more of the
\* characters of a word, everything else is literal.  The text is cut into one
\* part for each token of the template.
Fits(template, text) ==
  \E starts \in SUBSET DOMAIN text :
    LET Part(i) == Cardinality({s \in starts : s <= i}) IN
    /\ Cardinality(starts) = Len(template)
    /\ text = <<>> \/ 1 \in starts
    /\ \A i \in DOMAIN text :
         IF template[Part(i)] = "*" THEN text[i] \in Words
         ELSE i \in starts /\ text[i] = template[Part(i)]

MatchAuthorityTemplate(authority, template) == authority = template \/ Fits(template, authority)

\* A "*" glued to the end of the host, unless it stands for the port.
Glued(t) ==
  LET host == TrimSuffix(t.authority, "*") IN
  t.path = <<>> /\ HasSuffix(t.authority, "*") /\ host # <<>> /\ ~HasSuffix(host, ":")

MatchUriTemplate(uri, template) ==
  LET v == SplitSchemeAuthorityPath(uri)
      t == SplitSchemeAuthorityPath(template)
  IN  \/ template = <<"*">>
      \/ /\ ~IsPrefix(<<"/", "/">>, uri) /\ ~UnsafePath(v.path)
         /\ t.absolute = v.absolute
         /\ t.absolute => /\ t.scheme = v.scheme /\ ~Glued(t)
                          /\ MatchAuthorityTemplate(v.authority, t.authority)
         /\ MatchPathTemplate(v.path, t.path)

\* An empty redirect_uri is accepted, and means that there is none.
ValidRedirectUri(uri, validUris, wildcards) ==
  \/ uri = <<>>
  \/ \E i \in DOMAIN validUris :
       uri = validUris[i] \/ (wildcards /\ MatchUriTemplate(uri, validUris[i]))

\* EnsureAbsoluteUrl
EnsureAbsoluteUrl(host, uri) ==
  IF \E scheme \in {"http", "https"} : IsPrefix(<<scheme, ":", "/", "/">>, uri) THEN uri
  ELSE host \o (IF uri # <<>> /\ uri[1] = "/" THEN uri ELSE <<"/">> \o uri)

-----------------------------------------------------------------------------
(***************************************************************************)
(* What an entry of the list stands for, in the words of its comments: the  *)
(* URI itself; with wildcards, the URIs with its scheme whose host it       *)
(* describes label by label, and whose path is below the entry's.           *)
(***************************************************************************)
\* Scheme, authority and path of an absolute URI: nothing but the "://" is
\* reserved before the path, which is empty or begins with / ? or #.
Divides(uri, sep, end) ==
  /\ \A i \in 1..end : uri[i] \in Reserved => i \in {sep + 1, sep + 2}
  /\ end < Len(uri) => uri[end + 1] \in Reserved

Parts(uri) ==
  {Absolute(uri, d[1], d[2]) :
     d \in {d \in SchemeSeparators(uri) \X (0..Len(uri)) :
             d[1] + 2 <= d[2] /\ Divides(uri, d[1], d[2])}}

\* A relative URI with "://" in it, which is taken for an absolute one.
HidesScheme(uri) == Parts(uri) = {} /\ SchemeSeparators(uri) # {}

\* What comes before is then the scheme, and a URI of the same scheme may match:
\* one that begins like the entry, and so is relative, too.
Misread(uri, entry) ==
  HidesScheme(entry) /\ IsPrefix(SubSeq(entry, 1, Min(SchemeSeparators(entry)) + 2), uri)

\* The wildcard at the end of a path stands for anything, and with the "/"
\* before it for nothing; query and fragment do not count.
Below(path, template) ==
  LET page == StripQueryAndFragment(path) IN
  \/ path = template
  \/ template = page \o <<"/", "*">>
  \/ \E n \in 0..Len(page) : template = SubSeq(page, 1, n) \o <<"*">>

StandsFor(entry, uri) ==
  IF Parts(entry) = {} THEN Parts(uri) = {} /\ ~UnsafePath(uri) /\ Below(uri, entry)
  ELSE \E e \in Parts(entry), u \in Parts(uri) :
         /\ u.scheme = e.scheme /\ ~Glued(e)
         /\ u.authority = e.authority \/ Fits(e.authority, u.authority)
         /\ ~UnsafePath(u.path) /\ Below(u.path, e.path)

Registered(uri, entry, wildcards) ==
  \/ uri = entry
  \/ /\ wildcards
     /\ entry = <<"*">> \/ (~IsPrefix(<<"/", "/">>, uri) /\ StandsFor(entry, uri))
=============================================================================
