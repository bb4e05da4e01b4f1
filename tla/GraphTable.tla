----------------------------- MODULE GraphTable ------------------------------
(***************************************************************************)
(* The tile graphs of dr0 to dr15 as the records that TileGraphs runs: for *)
(* each graph the workers of its _program in order, the hosts its loading  *)
(* functions refuse and what its host call compares in a result.           *)
(*                                                                         *)
(* A stage is named by what its kernel does with a token that has failed   *)
(* (its guard) and with one that has not (its work).                       *)
(***************************************************************************)
Forwards == [guard |-> "forwards", work |-> "computes"]
Sampler == [guard |-> "forwards", work |-> "samples"]
Aligned == [guard |-> "aligned", work |-> "computes"]
AlignedSampler == [guard |-> "aligned", work |-> "samples"]
Keeps == [guard |-> "keeps", work |-> "computes"]
KeepsSampler == [guard |-> "keeps", work |-> "samples"]
Blind == [guard |-> "none", work |-> "computes"]
Masks == [guard |-> "none", work |-> "masks"]
Misplaced == [guard |-> "misplaced", work |-> "computes"]
MisplacedService == [guard |-> "misplaced", work |-> "serves"]

(* The program of a service with one kernel, which refuses a bad request.  *)
Service == <<[guard |-> "forwards", work |-> "serves"]>>

(* Hosts refused before anything is built: those without the IRON          *)
(* packages, those that would emulate the device and, by the later graphs, *)
(* those where no device can be opened.                                    *)
PackagesOnly == {"no_packages"}
Emulators == {"no_packages", "emulator"}
DeviceOnly == {"no_packages", "emulator", "no_device"}

Row(program, refused, compared) ==
  [stages |-> program, refuses |-> refused, compares |-> compared]

(* The polynomial product and the Keccak services with their samplers: no  *)
(* stage tests its buffers.                                                *)
M33Program == <<Blind>>
M33Refuses == Emulators
M33 == Row(M33Program, M33Refuses, {})

Dr1Program == <<Forwards, Sampler>>
Dr1Refuses == Emulators
Dr1Result == {"id", "status"}
Dr1 == Row(Dr1Program, Dr1Refuses, Dr1Result)

Dr2Program == <<Forwards, Sampler>>
Dr2Refuses == Emulators
Dr2Result == {"id", "status"}
Dr2 == Row(Dr2Program, Dr2Refuses, Dr2Result)

Dr2bProgram == <<Forwards, Forwards>>
Dr2bRefuses == Emulators
Dr2bResult == {"id", "status"}
Dr2b == Row(Dr2bProgram, Dr2bRefuses, Dr2bResult)

Dr2cProgram == <<Sampler, Forwards>>
Dr2cRefuses == Emulators
Dr2cResult == {"id", "status"}
Dr2c == Row(Dr2cProgram, Dr2cRefuses, Dr2cResult)

(* ML-KEM-512: every stage tests its buffers and the token's status.  The  *)
(* last stage of decapsulation writes its error word into the identifier   *)
(* beside a magic number of zero; the host compares both.  The two         *)
(* diagnostic graphs run on an emulator as well.                           *)
Dr2dProgram ==
  <<Aligned, AlignedSampler, Aligned, AlignedSampler, Aligned, Forwards>>
Dr2dRefuses == Emulators
Dr2dResult == {"id", "status"}
Dr2d == Row(Dr2dProgram, Dr2dRefuses, Dr2dResult)

Dr3Program == <<Aligned, AlignedSampler, Aligned, AlignedSampler, Aligned>>
Dr3Refuses == Emulators
Dr3Result == {"id", "status"}
Dr3 == Row(Dr3Program, Dr3Refuses, Dr3Result)

Dr4Program == <<Forwards, Forwards>>
Dr4Refuses == Emulators
Dr4Result == {"id", "status"}
Dr4 == Row(Dr4Program, Dr4Refuses, Dr4Result)

Dr5Program == <<Keeps, KeepsSampler, Keeps, KeepsSampler, Keeps, Keeps>>
Dr5Refuses == Emulators
Dr5Result == {"id", "status"}
Dr5 == Row(Dr5Program, Dr5Refuses, Dr5Result)

Dr6Program ==
  <<Aligned, Aligned, AlignedSampler, Aligned, AlignedSampler, Aligned>>
Dr6Refuses == Emulators
Dr6Result == {"id", "status"}
Dr6 == Row(Dr6Program, Dr6Refuses, Dr6Result)

Dr7Program ==
  <<Aligned, Aligned, AlignedSampler, Aligned, AlignedSampler, Misplaced>>
Dr7Refuses == Emulators
Dr7Result == {"id", "status"}
Dr7 == Row(Dr7Program, Dr7Refuses, Dr7Result)

ProbeProgram == <<Aligned, Forwards>>
ProbeRefuses == PackagesOnly
Probe == Row(ProbeProgram, ProbeRefuses, Dr2dResult)

TapProgram == <<Aligned>>
TapRefuses == PackagesOnly
TapResult == {"id", "status"}
Tap == Row(TapProgram, TapRefuses, TapResult)

(* ML-KEM-768 and ML-KEM-1024: a row stage samples and accumulates its     *)
(* row.  The last stage writes its error word into the identifier, and the *)
(* host compares the status only.                                          *)
Kem768KeygenProgram ==
  <<Aligned, AlignedSampler, AlignedSampler, AlignedSampler, Misplaced>>
Kem768KeygenRefuses == Emulators
Kem768Keygen == Row(Kem768KeygenProgram, Kem768KeygenRefuses, {"status"})

Kem768EncapsProgram ==
  <<Aligned, AlignedSampler, AlignedSampler, AlignedSampler, Misplaced>>
Kem768EncapsRefuses == Emulators
Kem768Encaps == Row(Kem768EncapsProgram, Kem768EncapsRefuses, {"status"})

Kem768DecapsProgram ==
  <<Aligned, Aligned, AlignedSampler, AlignedSampler, AlignedSampler,
    Misplaced>>
Kem768DecapsRefuses == Emulators
Kem768Decaps == Row(Kem768DecapsProgram, Kem768DecapsRefuses, {"status"})

Kem1024KeygenProgram ==
  <<Aligned, AlignedSampler, AlignedSampler, AlignedSampler,
    AlignedSampler, Misplaced>>
Kem1024KeygenRefuses == Emulators
Kem1024Keygen == Row(Kem1024KeygenProgram, Kem1024KeygenRefuses, {"status"})

Kem1024EncapsProgram ==
  <<Aligned, AlignedSampler, AlignedSampler, AlignedSampler,
    AlignedSampler, Misplaced>>
Kem1024EncapsRefuses == Emulators
Kem1024Encaps == Row(Kem1024EncapsProgram, Kem1024EncapsRefuses, {"status"})

Kem1024DecapsProgram ==
  <<Aligned, Aligned, AlignedSampler, AlignedSampler, AlignedSampler,
    AlignedSampler, Misplaced>>
Kem1024DecapsRefuses == Emulators
Kem1024Decaps == Row(Kem1024DecapsProgram, Kem1024DecapsRefuses, {"status"})

(* FIPS 202 and the sealed lifecycle, one stage each.  The first misplaces *)
(* its error word as well.                                                 *)
Dr9Program == <<MisplacedService>>
Dr9Refuses == Emulators
Dr9 == Row(Dr9Program, Dr9Refuses, {"status"})

Dr10Program == Service
Dr10Refuses == Emulators
Dr10 == Row(Dr10Program, Dr10Refuses, {})

(* ML-DSA: no stage looks at the status of its token, and a mask stage of  *)
(* DR12 that runs out of attempts goes on. Key generation and signing of   *)
(* DR14 and DR15, and all verifications, take what they find in the        *)
(* result.                                                                 *)
Dr11Program == <<Blind, Blind, Blind, Blind, Blind, Blind>>
Dr11Refuses == Emulators
Dr11 == Row(Dr11Program, Dr11Refuses, {"status"})

Dr12Program == <<Blind, Masks, Blind, Blind>>
Dr12Refuses == Emulators
Dr12 == Row(Dr12Program, Dr12Refuses, {"status"})

Dr13Program == <<Blind, Blind>>
Dr13Refuses == Emulators
Dr13 == Row(Dr13Program, Dr13Refuses, {})

Dr14KeygenProgram == <<Blind, Blind, Blind, Blind, Blind>>
Dr14KeygenRefuses == Emulators
Dr14Keygen == Row(Dr14KeygenProgram, Dr14KeygenRefuses, {})

Dr14SignProgram == <<Blind, Blind, Blind>>
Dr14SignRefuses == Emulators
Dr14Sign == Row(Dr14SignProgram, Dr14SignRefuses, {})

Dr14VerifyProgram == <<Blind, Blind, Blind>>
Dr14VerifyRefuses == Emulators
Dr14Verify == Row(Dr14VerifyProgram, Dr14VerifyRefuses, {})

Dr15KeygenProgram == <<Blind, Blind, Blind, Blind>>
Dr15KeygenRefuses == Emulators
Dr15Keygen == Row(Dr15KeygenProgram, Dr15KeygenRefuses, {})

Dr15SignProgram == <<Blind, Blind, Blind>>
Dr15SignRefuses == Emulators
Dr15Sign == Row(Dr15SignProgram, Dr15SignRefuses, {})

Dr15VerifyProgram == <<Blind, Blind, Blind>>
Dr15VerifyRefuses == Emulators
Dr15Verify == Row(Dr15VerifyProgram, Dr15VerifyRefuses, {})
=============================================================================
