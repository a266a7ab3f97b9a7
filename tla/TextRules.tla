------------------------------ MODULE TextRules ------------------------------
(***************************************************************************)
(* The text that enters through packages/common and the CHECKs of          *)
(* packages/models that refuse to store it: names of organisations and     *)
(* units, texts of a membership, device names and User-Agents of a         *)
(* session, e-mails of accounts.  The two sides are written in different   *)
(* languages and do not share a definition of white space: JavaScript's    *)
(* trim and \s know the no-break space, PostgreSQL's btrim knows only the  *)
(* space and its [[:space:]], with the C and libc locales, does not.  Nor  *)
(* do the modules of packages/common agree on what a control character is, *)
(* or JavaScript and PostgreSQL on the lower case of every letter.         *)
(*                                                                         *)
(* A character is a representative of its class: a lower and an upper case *)
(* letter, the Greek capital sigma (it stands for the letters with two     *)
(* lower cases), "@", space, line feed (white space and control), BEL (for *)
(* the rest of U+0000-001F and DEL), a C1 control (U+0080-009F) and the    *)
(* no-break space.  (Some C libraries make U+0085 white space too: only   *)
(* the CHECK of an e-mail could tell, and it would refuse one more.)       *)
(***************************************************************************)
EXTENDS Naturals, Sequences, SequencesExt

CONSTANTS MaxTyped,        \* bound on the length of an input
          MaximumLength    \* of a column and of the truncation

VARIABLE value    \* the text a client sends

vars == <<value>>

Characters == {"a", "A", "Sigma", "@", "space", "lf", "bel", "c1", "nbsp"}
Letters == {"a", "A", "Sigma"}
JsSpace == {"space", "lf", "nbsp"}     \* \s and trim()
SqlSpace == {"space", "lf"}            \* [[:space:]]
SessionControl == {"lf", "bel"}        \* of auth-sessions: C0 and DEL
MemberControl == {"lf", "bel", "c1"}   \* of organization-members: C1 too
SqlControl == {"lf", "bel", "c1"}      \* [[:cntrl:]]

\* A column has room for something.
MaximumIsPositive == MaximumLength \in Nat \ {0}

Init == value = <<>>

Type(c) == Len(value) < MaxTyped /\ value' = Append(value, c)
Erase == value # <<>> /\ value' = Front(value)

Next == Erase \/ \E c \in Characters : Type(c)

Spec == Init /\ [][Next]_vars

-----------------------------------------------------------------------------
(* JavaScript *)

Without(v, class) == Range(v) \cap class = {}

\* v without the characters of class at its two ends.
Stripped(v, class) ==
    LET kept == {i \in DOMAIN v : v[i] \notin class} IN
    IF kept = {} THEN <<>> ELSE SubSeq(v, Min(kept), Max(kept))

Trim(v) == Stripped(v, JsSpace)

LowerCase(c) == CASE c = "A" -> "a" [] c = "Sigma" -> "sigma" [] OTHER -> c

\* A sigma that ends a word of more than one letter: toLowerCase looks at its
\* neighbours and gives it a lower case of its own.
FinalSigma(v, i) ==
    /\ v[i] = "Sigma" /\ i > 1 /\ v[i - 1] \in Letters
    /\ i < Len(v) => v[i + 1] \notin Letters

Lower(v) == [i \in DOMAIN v |-> IF FinalSigma(v, i) THEN "finalSigma" ELSE LowerCase(v[i])]

\* replace(/\s+/gu, ' '): the first of a run of white space becomes a space.
CollapsedSpaces(v) ==    \* Slip: / +/ instead of /\s+/
    LET done[i \in 0..Len(v)] ==
            IF i = 0 THEN <<>>
            ELSE IF v[i] = "space" /\ i > 1 /\ v[i - 1] = "space" THEN done[i - 1]
            ELSE Append(done[i - 1], v[i])
    IN done[Len(v)]
Collapsed(v) ==
    LET done[i \in 0..Len(v)] ==
            IF i = 0 THEN <<>>
            ELSE IF v[i] \notin JsSpace THEN Append(done[i - 1], v[i])
            ELSE IF i > 1 /\ v[i - 1] \in JsSpace THEN done[i - 1]
            ELSE Append(done[i - 1], "space")
    IN done[Len(v)]

\* normalizeOrganizationName, and the same rule for units and memberships.
NormalizeText(v) == Collapsed(Trim(v))
NormalizeSearchText(v) == Lower(NormalizeText(v))

\* isValidNormalizedText of a membership.
ValidMemberText(v) ==
    Len(v) \in 1..MaximumLength /\ Without(v, MemberControl) /\ v = NormalizeText(v)

\* sanitizeAuthSessionText; <<>> stands for null.
Decontrolled(v) == [i \in DOMAIN v |-> IF v[i] \in SessionControl THEN "space" ELSE v[i]]
Truncated(v) == SubSeq(v, 1, IF Len(v) < MaximumLength THEN Len(v) ELSE MaximumLength)
SanitizeText(v) == Truncated(Trim(Collapsed(Decontrolled(v))))

\* normalizeAccountEmail and isAuthenticationEmailLookupCandidate.
NormalizeEmail(v) == Lower(Trim(v))

OneAt(v, forbidden) ==
    \E i \in 2..Len(v) - 1 : v[i] = "@" /\ \A j \in DOMAIN v \ {i} : v[j] \notin forbidden \cup {"@"}
LookupCandidate(v) == OneAt(v, JsSpace)

-----------------------------------------------------------------------------
(* PostgreSQL *)

Btrimmed(v) == v = Stripped(v, {"space"})

\* lower() maps one character after the other.
SqlLower(v) == [i \in DOMAIN v |-> LowerCase(v[i])]

\* organizations_name_normalization_check and its likes, and the varchar.
StoredText(v) ==
    /\ Len(v) \in 1..MaximumLength
    /\ Btrimmed(v) /\ Without(v, SqlControl)
    /\ ~\E i \in 1..Len(v) - 1 : {v[i], v[i + 1]} \subseteq SqlSpace
StoredName(name, normalized) == StoredText(name) /\ normalized = SqlLower(name)

\* auth_sessions_device_name_check and auth_sessions_user_agent_check.
StoredMetadata(v) ==
    v # <<>> => Len(v) <= MaximumLength /\ Btrimmed(v) /\ Without(v, SqlControl)

\* accounts_email_normalization_check.
StoredEmail(email) == Btrimmed(email) /\ OneAt(SqlLower(email), SqlSpace)

-----------------------------------------------------------------------------
(* Properties *)

\* A name that has a visible character, no control but white space and fits
\* its column passes the CHECK once normalised, whatever white space the
\* client sent: the normaliser leaves nothing that it refuses.  Its search key
\* is the one the CHECK computes unless a word ends in a capital sigma, and
\* then the row is refused.
NormalisedNameIsStorable ==
    LET name == NormalizeText(value) IN
    Len(name) \in 1..MaximumLength /\ {"bel", "c1"} \cap Range(value) = {} =>
        /\ StoredText(name)
        /\ StoredName(name, NormalizeSearchText(value))
              <=> ~\E i \in DOMAIN name : FinalSigma(name, i)

\* The validator of registration numbers and job titles accepts only what the
\* column accepts, and the column accepts no normalised text that it refuses.
MemberRulesAgree ==
    /\ ValidMemberText(value) => StoredText(value)
    /\ StoredText(NormalizeText(value)) => ValidMemberText(NormalizeText(value))

\* The CHECKs refuse the sanitised device metadata of a login in two cases and
\* in no other: a C1 control was sent, which the sanitiser does not know, and
\* is still there after the truncation, or the truncation cut right after a
\* space.  The metadata is empty only when nothing visible was sent.
MetadataRefusedInTwoCases ==
    LET clean == SanitizeText(value) IN
    /\ ~StoredMetadata(clean)
          <=> \/ "c1" \in Range(clean)
              \/ Len(clean) = MaximumLength /\ Last(clean) = "space"
    /\ clean = <<>> <=> Range(value) \subseteq JsSpace \cup SessionControl

\* What docs/database/AUTH_SESSIONS.md says of the sanitisers: they trim and
\* limit, and the CHECKs stop spaces at the ends only of other writers.
MetadataIsTrimmed == Btrimmed(SanitizeText(value))

\* What docs/database/AUTH_SESSIONS.md and the comment of the sanitiser of the
\* User-Agent say: they remove controls, and the CHECKs stop only those of
\* other writers.
MetadataHasNoControls == Without(SanitizeText(value), SqlControl)

\* Whoever types the e-mail of a stored account, with white space around it,
\* sends an address that can be looked up, and the key is the one that is
\* stored unless a word ends in a capital sigma.  (A stored
\* address with a no-break space inside, which only PostgreSQL lets through,
\* is never found.)
LookupFindsStoredEmail ==
    StoredEmail(value) /\ "nbsp" \notin Range(value) =>
        \A before, after \in JsSpace :
            LET key == NormalizeEmail(<<before>> \o value \o <<after>>) IN
            /\ LookupCandidate(key)
            /\ key = SqlLower(value) <=> ~\E i \in DOMAIN value : FinalSigma(value, i)
=============================================================================
