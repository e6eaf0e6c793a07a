------------------------------- MODULE RnidFiles -------------------------------
(***************************************************************************)
(* rnid (src/bin/rnid.rs): the files it reads and writes, run after run.   *)
(* It may die between any two steps, and the user goes on working on the   *)
(* file he signs and encrypts.                                             *)
(*                                                                         *)
(* Cryptography is ideal: a signature is of one text by one key, and a     *)
(* text encrypted for a key is opened by that key only. A file is read or  *)
(* written in one step once it is open (files of more than 16 MiB, which   *)
(* are encrypted in chunks, are left out).                                 *)
(***************************************************************************)
EXTENDS Integers, FiniteSets

CONSTANTS
  Key,      \* identities
  Text,     \* what the user writes
  MaxRuns,  \* bound on the invocations of rnid
  MaxEdits, \* bound on the user's edits
  MaxDeaths \* bound on the runs that die

Bytes0 == [kind |-> "empty", by |-> "none", of |-> "none"]
Absent == [kind |-> "absent", by |-> "none", of |-> "none"]

ASSUME FilesAssumption ==
  /\ IsFiniteSet(Key) /\ IsFiniteSet(Text)
  /\ "none" \notin Key \cup Text
  /\ MaxRuns \in Nat /\ MaxEdits \in Nat /\ MaxDeaths \in Nat

\* The file the user works on, its signature and its encrypted form, the path of -w and
\* those made from it, and an identity file of rnid's.
Path == {"f", "f.rsg", "f.rfe", "out", "out.pub", "out.rsm", "id"}

VARIABLES
  files,
  rnid,        \* what rnid is at
  runs, edits, deaths,
  before,      \* history variable: files the run must leave as they were when it started
  signed,      \* history variable: what has been signed, <<key, text>>
  claim        \* history variable: what rnid has reported of its operation

filesVars == <<files, rnid, runs, edits, deaths, before, signed, claim>>

File(kind, by, of) == [kind |-> kind, by |-> by, of |-> of]

\* The invocations: the identity's source (-g; -i of a file or, for "hash", of an identity;
\* -m; or none), one operation, and flags. raw: --raw; bin: no encoding of text is chosen;
\* write: -w; prv: -X. validate_args() refuses the others, and run() an operation that
\* lacks its identity, as every one with a hash but a validation does.
Invocation ==
  LET Args(sources, ops, raw, bin) ==
        [source : sources, key : Key, op : ops, write : BOOLEAN, force : BOOLEAN,
         raw : raw, bin : bin, prv : BOOLEAN]
      given == {"generate", "file", "public"}
  IN {a \in Args(given \cup {"hash", "none"}, {"validate"}, {FALSE}, {TRUE})
             \cup Args(given, {"nothing", "encrypt", "decrypt"}, {FALSE}, {TRUE})
             \cup Args(given, {"sign", "message"}, BOOLEAN, BOOLEAN) :
       /\ a.prv => a.write
       /\ a.source \in {"hash", "none"} => ~a.write
       /\ a.raw => a.op = "sign"
       /\ a.source \in {"file", "none"} => a.key = CHOOSE k \in Key : TRUE}

\* at: "op", "fill" (a file is open and empty), "write" (write_identity) or "over".
\* id: the identity it works with. path, to: the open file, and what goes into it.
NoIdentity == File("none", "none", "none")
NoRnid == [at |-> "over", args |-> [op |-> "none"], id |-> NoIdentity, path |-> "none",
           to |-> Bytes0]
NoClaim == [by |-> "none", of |-> "none", asked |-> "none"]

FilesInit ==
  /\ \E t \in Text : files = [p \in Path |-> IF p = "f" THEN File("text", "none", t) ELSE Absent]
  /\ rnid = NoRnid /\ runs = 0 /\ edits = 0 /\ deaths = 0
  /\ before = files /\ signed = {} /\ claim = NoClaim

--------------------------------------------------------------------------------
(* rnid: the identity it works with.                                       *)

\* get_operating_identity() and decode_identity_input(): made up and written, read from
\* a file, or a public one, which -X refuses. A file that is not there is not missed by a
\* validation, nor is the identity of a hash, which is never known.
GetIdentity ==
  /\ rnid.at = "over" /\ runs < MaxRuns /\ runs' = runs + 1
  /\ claim' = NoClaim
  /\ \E args \in Invocation :
       LET with(id) == rnid' = [at |-> "op", args |-> args, id |-> id, path |-> "none", to |-> Bytes0]
       IN
       /\ before' = IF args.force \/ (args.raw /\ ~args.bin) THEN [p \in Path |-> Absent] ELSE files
       /\ \/ /\ args.source = "generate"
             /\ IF files["id"] # Absent /\ ~args.force
                THEN rnid' = NoRnid /\ UNCHANGED files
                ELSE /\ files' = [files EXCEPT !["id"] = File("prv", args.key, "none")]
                     /\ with(files'["id"])
          \/ /\ args.source = "file"
             /\ IF files["id"].kind = "prv" THEN with(files["id"])
                ELSE IF args.op = "validate" /\ ~args.write THEN with(NoIdentity) ELSE rnid' = NoRnid
             /\ UNCHANGED files
          \/ /\ args.source = "public"
             /\ IF args.prv THEN rnid' = NoRnid ELSE with(File("pub", args.key, "none"))
             /\ UNCHANGED files
          \/ /\ args.source \in {"hash", "none"}
             /\ with(NoIdentity) /\ UNCHANGED files
  /\ UNCHANGED <<edits, deaths, signed>>

--------------------------------------------------------------------------------
(* rnid: its operations.                                                   *)

Private == rnid.id.kind = "prv"

\* (faulty variant: what is there is not looked at)
TakenNever(p) == FALSE
Taken(p) == files[p] # Absent /\ ~rnid.args.force

\* After the operation, write_identity() if there is a -w.
AfterOp == IF rnid.args.write THEN [rnid EXCEPT !.at = "write", !.to = Bytes0] ELSE NoRnid

\* The identity an invocation names; "missing" for a file there is not.
Named ==
  LET a == rnid.args IN
  IF a.source # "file" THEN IF a.source = "none" THEN "none" ELSE a.key
  ELSE IF rnid.id = NoIdentity THEN "missing" ELSE rnid.id.by

Report(by, of) == claim' = [by |-> by, of |-> of, asked |-> Named]

Fails == rnid' = NoRnid /\ UNCHANGED <<files, signed, claim>>
Printed == rnid' = AfterOp /\ UNCHANGED files

\* A file is created, or truncated, before it is filled.
Open(p, to) ==
  /\ files' = [files EXCEPT ![p] = Bytes0]
  /\ rnid' = [rnid EXCEPT !.at = "fill", !.path = p, !.to = to]

Op(op) ==
  /\ rnid.at = "op" /\ rnid.args.op = op
  /\ UNCHANGED <<runs, edits, deaths, before>>

NoOperation == Op("nothing") /\ Printed /\ UNCHANGED <<signed, claim>>

\* sign_path() and create_rsg(). A raw signature is written whatever the encoding is.
Sign ==
  /\ Op("sign")
  /\ LET a == rnid.args
         sig == File(IF a.raw THEN "raw" ELSE "sig", rnid.id.by, files["f"].of) IN
     IF ~Private \/ (a.bin /\ Taken("f.rsg")) THEN Fails
     ELSE /\ signed' = signed \cup {<<sig.by, sig.of>>}
          /\ IF a.raw \/ a.bin THEN Open("f.rsg", sig) ELSE Printed
          /\ UNCHANGED claim

\* sign_message(): a message from the command line.
SignMessage(t) ==
  /\ Op("message")
  /\ LET a == rnid.args IN
     IF ~Private \/ (a.bin /\ (~a.write \/ Taken("out.rsm"))) THEN Fails
     ELSE /\ signed' = signed \cup {<<rnid.id.by, t>>}
          /\ IF a.bin THEN Open("out.rsm", File("msg", rnid.id.by, t)) ELSE Printed
          /\ UNCHANGED claim

\* (faulty variant: the signature's hash is not compared with the file's)
ValidHashUnchecked(sig, of) ==
  /\ sig.kind \in {"sig", "msg"} \/ (sig.kind = "raw" /\ rnid.id # NoIdentity)
  /\ rnid.id # NoIdentity => sig.by = rnid.id.by

\* validate_rsg(), and a raw signature, which names no signer.
Valid(sig, of) ==
  /\ sig.kind \in {"sig", "msg"} \/ (sig.kind = "raw" /\ rnid.id # NoIdentity)
  /\ sig.of = of
  /\ rnid.id # NoIdentity => sig.by = rnid.id.by

\* validate_path()
ValidateFile ==
  /\ Op("validate")
  /\ IF Valid(files["f.rsg"], files["f"].of)
     THEN Report(files["f.rsg"].by, files["f"].of) /\ Printed /\ UNCHANGED signed
     ELSE Fails

\* validate_message()
ValidateMessage ==
  /\ Op("validate")
  /\ IF Valid(files["out.rsm"], files["out.rsm"].of)
     THEN Report(files["out.rsm"].by, files["out.rsm"].of) /\ Printed /\ UNCHANGED signed
     ELSE Fails

\* encrypt_path() up to create_file()
Encrypt ==
  /\ Op("encrypt")
  /\ LET out == IF rnid.args.write THEN "out" ELSE "f.rfe" IN
     IF Taken(out) THEN Fails ELSE Open(out, Bytes0) /\ UNCHANGED <<signed, claim>>

\* decrypt_path() up to create_file()
Decrypt ==
  /\ Op("decrypt")
  /\ LET out == IF rnid.args.write THEN "out" ELSE "f" IN
     IF ~Private \/ files["f.rfe"] = Absent \/ Taken(out) THEN Fails
     ELSE Open(out, Bytes0) /\ UNCHANGED <<signed, claim>>

\* What goes into the open file; nothing is made of nothing.
Filling ==
  CASE rnid.args.op = "encrypt" /\ files["f"].kind = "text" -> File("enc", rnid.id.by, files["f"].of)
    [] rnid.args.op = "decrypt" /\ files["f.rfe"].kind = "enc" -> File("text", "none", files["f.rfe"].of)
    [] OTHER -> rnid.to

\* The file is written. A key that does not fit leaves it empty.
Fill ==
  /\ rnid.at = "fill"
  /\ IF rnid.args.op = "decrypt" /\ files["f.rfe"].kind = "enc" /\ files["f.rfe"].by # rnid.id.by
     THEN Fails
     ELSE /\ files' = [files EXCEPT ![rnid.path] = Filling]
          /\ rnid' = AfterOp
          /\ UNCHANGED <<signed, claim>>
  /\ UNCHANGED <<runs, edits, deaths, before>>

\* write_identity(): with any -w, whatever the operation was.
WriteIdentity ==
  /\ rnid.at = "write"
  /\ LET a == rnid.args p == IF a.prv THEN "out" ELSE "out.pub" IN
     IF (a.prv /\ ~Private) \/ Taken(p) THEN Fails
     ELSE /\ files' = [files EXCEPT ![p] = File(IF a.prv THEN "prv" ELSE "pub", rnid.id.by, "none")]
          /\ rnid' = NoRnid
          /\ UNCHANGED <<signed, claim>>
  /\ UNCHANGED <<runs, edits, deaths, before>>

\* rnid dies, or a write fails: an open file stays as it is.
RnidDies ==
  /\ rnid.at # "over"
  /\ deaths < MaxDeaths /\ deaths' = deaths + 1
  /\ Fails
  /\ UNCHANGED <<runs, edits, before>>

\* The user changes the file.
Edit(t) ==
  /\ edits < MaxEdits /\ edits' = edits + 1
  /\ files' = [files EXCEPT !["f"] = File("text", "none", t)]
  /\ before' = [before EXCEPT !["f"] = IF @ = Absent THEN @ ELSE files'["f"]]
  /\ UNCHANGED <<rnid, runs, deaths, signed, claim>>

--------------------------------------------------------------------------------
FilesNext ==
  \/ GetIdentity
  \/ NoOperation \/ Sign \/ \E t \in Text : SignMessage(t)
  \/ ValidateFile \/ ValidateMessage \/ Encrypt \/ Decrypt
  \/ Fill \/ WriteIdentity \/ RnidDies
  \/ \E t \in Text : Edit(t)

FilesSpec == FilesInit /\ [][FilesNext]_filesVars

--------------------------------------------------------------------------------
FilesTypeOK ==
  /\ files["f"].kind \in {"text", "empty"}
  /\ files["f.rsg"].kind \in {"absent", "empty", "sig", "raw"}
  /\ files["f.rfe"].kind \in {"absent", "empty", "enc"}
  /\ files["id"].kind \in {"absent", "prv"}
  /\ (rnid.at = "fill") => (files[rnid.path] = Bytes0 \/ rnid.path = "f")

\* "-f, --force: write output even if it overwrites existing files": without it rnid
\* leaves every file as it was, however many it writes and wherever it dies; but for a
\* raw signature with an encoding of text, where sign_path() does not look.
FilesKept ==
  \A p \in Path : before[p] # Absent => files[p] = before[p]

\* What rnid calls validly signed was signed, as it is, by the key it reports: however
\* often the file and its signature were written since. (validate_rsg(), and the legacy
\* branch of validate_path())
ValidMeansSigned == claim # NoClaim => <<claim.by, claim.of>> \in signed

\* "-i: hexadecimal Reticulum identity or destination hash, or path to Identity file", the
\* "explicit required identity" of a validation: what is called validly signed was signed
\* by the identity that was named. (get_operating_identity(): a hash, and a file that is
\* not there, count as none, and any signer will do.)
SignedByNamed == claim # NoClaim => claim.asked \in {"none", claim.by}
================================================================================
