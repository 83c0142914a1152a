---------------------------- MODULE FileAdmission ---------------------------
(***************************************************************************)
(* The two checks a file passes before it is parsed: what it is            *)
(* (app/security/content_validation.py, run by the upload) and the         *)
(* structural half of the malware screen (app/ingestion/scanner.py, run by *)
(* the worker).  A file is its name's suffix, the family its first bytes   *)
(* belong to, and the set of facts the two checks read off the rest.       *)
(***************************************************************************)
EXTENDS FiniteSets

FileSuffixes == {".pdf", ".docx", ".csv", ".md", ".exe"}
Heads == {"pdf magic", "zip magic", "binary signature", "markup", "text"}

\* Facts of a payload.  For a ZIP: its directory reads, it holds a Word package, it holds a
\* VBA project.  For a PDF: it opens, it is encrypted, it has scripts, an open action, a
\* destination only, attachments; its catalog refers to an action that is not in the file.  For
\* a text: it decodes, it holds control bytes.
ZipFacts == {"directory", "package", "vba"}
PdfFacts == {"opens", "encrypted", "scripts", "action", "destination", "attachments", "dangling"}
TextFacts == {"utf8", "control"}

\* The facts there are to read off a payload of this family.
FactsOf(head) ==
    CASE head = "pdf magic" -> PdfFacts
      [] head = "zip magic" -> ZipFacts
      [] head = "text" -> TextFacts
      [] OTHER -> {}

Refused == "refused"

\* sniff_family: the family, or a refusal.
SniffFamily(file) ==
    CASE file.head = "pdf magic" -> "PDF"
      [] file.head = "zip magic" -> "ZIP"
      [] file.head = "text" -> "TEXT"
      [] OTHER -> Refused

ValidDocx(file) == {"directory", "package"} \subseteq file.has

ValidText(file) == "utf8" \in file.has /\ "control" \notin file.has

\* What the contents are, as a suffix; a text is whichever text format its name claims.
Contents(file) ==
    CASE SniffFamily(file) = "PDF" -> ".pdf"
      [] SniffFamily(file) = "ZIP" /\ ValidDocx(file) -> ".docx"
      [] SniffFamily(file) = "TEXT" /\ ValidText(file) /\ file.suffix \in {".csv", ".md"} ->
             file.suffix
      [] OTHER -> Refused

\* detect_file_type: the contents must be what the name says.
Admitted(file) ==
    /\ ~file.empty
    /\ file.suffix \in FileSuffixes \ {".exe"}
    /\ Contents(file) = file.suffix

\* A container that does not open is clean here: the parser will refuse it.
ScreenDocx(file) == "directory" \in file.has => "vba" \notin file.has

\* What _screen_pdf looks for.
ActiveContent == {"scripts", "action", "attachments"}

\* The screen reads the file to its end.  An encrypted or unreadable file is left to the parser; a
\* reference that leads nowhere raises within the screen, whose handler takes every exception for
\* a file that does not open, and what was found until then is dropped.
ScreenCompletes(file) == "opens" \in file.has /\ file.has \cap {"encrypted", "dangling"} = {}

\* A destination is navigation.
ScreenPdf(file) == ScreenCompletes(file) => file.has \cap ActiveContent = {}

\* _structural_scan: a text format has nothing to screen.
StructurallyClean(file) ==
    /\ file.suffix = ".docx" => ScreenDocx(file)
    /\ file.suffix = ".pdf" => ScreenPdf(file)
=============================================================================
