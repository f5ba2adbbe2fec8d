----------------------------- MODULE FileArchive -----------------------------
(***************************************************************************)
(* FileArchive::ParseFileModel and what it calls: find or extract the        *)
(* archive, then parse the directory of the design part by part.  The parser *)
(* of a part answers true or false or throws, as its file and its directory  *)
(* decide; the module is about what becomes of those answers.                *)
(***************************************************************************)
EXTENDS Selection, FiniteSets, FiniteSetsExt

CONSTANTS Steps,     \* names of steps, in the archive or left over in the directory
          Symbols    \* names of symbols in the archive
ASSUME ArchiveAssumption == IsFiniteSet(Steps) /\ IsFiniteSet(Symbols)

VARIABLE job  \* one ParseFileModel: what is still to do and what it has so far

(* The extraction directory is named after the archive and is not emptied    *)
(* first, so that a step of an archive extracted there earlier can be left.  *)
ArchiveInit ==
    \E inArchive, left \in SUBSET Steps :
       job = [todo |-> <<>>, done |-> {}, steps |-> {}, symbols |-> {},
              inArchive |-> inArchive, left |-> left, outcome |-> "start"]

Outcomes == {"true", "false", "throws"}
Finished == job.outcome \in Outcomes
-----------------------------------------------------------------------------
(* The parts in the order they are parsed; a part is <<directory, name,      *)
(* file>>.                                                                   *)

(* LayerDirectory::Parse for one layer                                       *)
LayerParts(s) == <<<<"step", s, "layers">>, <<"step", s, "components">>, <<"step", s, "features">>,
                   <<"step", s, "layer attrlist">>, <<"step", s, "tools">>>>

(* The files of a step itself, and StepDirectory::Parse                      *)
StepFileParts(s) == <<<<"step", s, "netlists">>, <<"step", s, "eda">>, <<"step", s, "attrlist">>,
                      <<"step", s, "profile">>, <<"step", s, "stephdr">>>>
StepParts(s) == LayerParts(s) \o StepFileParts(s)

(* SymbolsDirectory::Parse                                                   *)
SymbolParts(s) == <<<<"symbol", s, "features">>, <<"symbol", s, "attrlist">>>>

(* Directory by directory, in whatever order the file system gives them.     *)
PartsOfAll(parts(_), names) == FoldSet(LAMBDA s, rest : parts(s) \o rest, <<>>, names)

(* ParseDesignDirectory: misc/info, the matrix and the fonts follow the      *)
(* steps, misc/attrlist the symbols.                                         *)
DesignParts(steps) ==
    PartsOfAll(StepParts, steps)
    \o <<<<"root", "", "misc info">>, <<"root", "", "matrix">>, <<"root", "", "fonts">>>>
    \o PartsOfAll(SymbolParts, Symbols) \o <<<<"root", "", "misc attrlist">>>>
-----------------------------------------------------------------------------
(* ArchiveExtractor::Extract: an unsupported type or a failed extraction is  *)
(* false; 7z failing throws.                                                 *)
Extract == {"extracted", "false", "throws"}

(* ExtractDesignArchive: the answer of the extractor; no file is false.      *)
ExtractDesignArchive ==
    /\ job.outcome = "start"
    /\ \E answer \in Extract :
          job' = [job EXCEPT !.outcome = answer]

(* findRootDir and pathContainsTopLevelDesignDirs: without a directory that  *)
(* holds the top-level ones there is nothing to parse.                       *)
FindRootDir ==
    /\ job.outcome = "extracted"
    /\ \/ job' = [job EXCEPT !.outcome = "false"]
       \/ job' = [job EXCEPT !.outcome = "parsing",
                             !.todo = DesignParts(job.inArchive \union job.left)]

(* m_stepsByName gets a step when its last file is parsed, and               *)
(* m_symbolsDirectoriesByName a symbol.                                      *)
PartParsed ==
    /\ job.outcome = "parsing" /\ job.todo # <<>>
    /\ LET part == Head(job.todo)
       IN  job' = [job EXCEPT
                     !.todo = Tail(@), !.done = @ \union {part},
                     !.steps = @ \union (IF part[3] = "stephdr" THEN {part[2]} ELSE {}),
                     !.symbols = @ \union (IF part[1] = "symbol" /\ part[3] = "attrlist"
                                           THEN {part[2]} ELSE {})]

(* A netlist's parser never answers false.                                   *)
MayBeFalse(part) == part[3] # "netlists"

(* A step that answers false is logged and left out, and the parsing goes on *)
(* with the next one.                                                        *)
WithoutStep(s) ==
    SelectAt(job.todo, {i \in DOMAIN job.todo : job.todo[i][1] # "step" \/ job.todo[i][2] # s})
SkipStep(part) == [job EXCEPT !.todo = WithoutStep(part[2])]
SkipStepButKeepIt(part) == [job EXCEPT !.todo = WithoutStep(part[2]),
                                       !.steps = @ \union {part[2]}]
StepFailed(part) == SkipStep(part)

(* Anything else that answers false makes ParseDesignDirectory false, for    *)
(* which ParseFileModel throws.                                              *)
PartFalse ==
    /\ job.outcome = "parsing" /\ job.todo # <<>> /\ MayBeFalse(Head(job.todo))
    /\ job' = IF Head(job.todo)[1] = "step" THEN StepFailed(Head(job.todo))
              ELSE [job EXCEPT !.outcome = "throws"]

(* parse_error and invalid_odb_error are not caught on the way up.           *)
PartThrows ==
    /\ job.outcome = "parsing" /\ job.todo # <<>>
    /\ job' = [job EXCEPT !.outcome = "throws"]

ParseReturns ==
    /\ job.outcome = "parsing" /\ job.todo = <<>>
    /\ job' = [job EXCEPT !.outcome = "true"]

ArchiveNext == \/ ExtractDesignArchive
               \/ FindRootDir
               \/ PartParsed
               \/ PartFalse
               \/ PartThrows
               \/ ParseReturns
-----------------------------------------------------------------------------
(* What can be seen of a load: at any time every step shown was parsed to    *)
(* its last file.  When ParseFileModel answers true, so were the files at    *)
(* the root and every symbol, and a directory extracted to for the first     *)
(* time shows only steps of the archive; a step that is absent is one whose  *)
(* parser said false.                                                        *)
LoadedArchiveWhole ==
    LET partsIn(seq) == {seq[i] : i \in DOMAIN seq}
    IN  /\ \A s \in job.steps : partsIn(StepParts(s)) \subseteq job.done
        /\ job.outcome = "true" =>
              /\ partsIn(DesignParts({})) \subseteq job.done
              /\ job.symbols = Symbols
              /\ job.left = {} => job.steps \subseteq job.inArchive
=============================================================================
