----------------------------- MODULE LibraryMC ------------------------------
(***************************************************************************)
(* The parts of the library that have nothing to do with the event loop    *)
(* and the registry, each by itself: a behaviour takes steps of one part.  *)
(***************************************************************************)
EXTENDS PackageCodecMC, LogConfigMC, LogOutput, WaveHeaderMC, FormatMasks, Checksum, AddressesMC,
        InterfacesMC

VARIABLE part   \* the one whose steps are taken

libraryVars == <<part, packageVars, logVars, outputVars, waveVars, formatVars, message, addressVars,
                 interfaceVars>>

LibraryInit ==
  /\ part \in {"package", "log", "output", "wave", "masks", "checksum", "addresses", "interfaces"}
  /\ PackageInit /\ LogInit /\ OutputInit /\ WaveInit /\ FormatsInit /\ ChecksumInit /\ AddressInit
  /\ InterfacesInit
  /\ part /= "interfaces" => system = CHOOSE s \in Systems : TRUE

Stands(p, v) == IF part = p THEN TRUE ELSE UNCHANGED v

LibraryNext ==
  /\ UNCHANGED part
  /\ Stands("package", packageVars) /\ Stands("log", logVars) /\ Stands("output", outputVars)
  /\ Stands("wave", waveVars) /\ Stands("masks", formatVars) /\ Stands("checksum", message)
  /\ Stands("addresses", addressVars) /\ Stands("interfaces", interfaceVars)
  /\ \/ part = "package" /\ PackageNext
     \/ part = "log" /\ LogNext
     \/ part = "output" /\ OutputNext
     \/ part = "wave" /\ WaveNext
     \/ part = "masks" /\ FormatsNext
     \/ part = "checksum" /\ ChecksumNext
     \/ part = "addresses" /\ AddressNext
     \/ part = "interfaces" /\ InterfacesNext

\* The threads that log are alike, and so are the callbacks.
LogSymmetry == Permutations(Writers) \cup Permutations(Sinks)

LibrarySpec == LibraryInit /\ [][LibraryNext]_libraryVars
=============================================================================
