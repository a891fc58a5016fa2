-------------------------- MODULE ProgramIdentifiers --------------------------
(***************************************************************************)
(* Identifiers of programs: 32-bit integers, whose top byte tells the kind *)
(* of the program, and whose other bytes hold the number it was given.     *)
(* (Nothing here leaves the 32 bits, so that Int will do.)                 *)
(***************************************************************************)
EXTENDS Integers

\* What bytes[3] of the union counts.
Top == 256 * 256 * 256

ModuleIdentifierCode == 42
ServiceIdentifierCode == 52

\* bytes[3], an int8_t.
topByte(identifier) == identifier \div Top

withTopByte(identifier, byte) == (identifier % Top) + byte * Top

isModuleIdentifier(identifier) == topByte(identifier) = ModuleIdentifierCode

isServiceIdentifier(identifier) == topByte(identifier) = ServiceIdentifierCode

\* Mutant: a number that is too large is not refused.
numberIsNotChecked(identifier) == withTopByte(identifier, ModuleIdentifierCode)

toModuleIdentifier(identifier) ==
  IF topByte(identifier) # 0 THEN -1
  ELSE withTopByte(identifier, ModuleIdentifierCode)

toServiceIdentifier(identifier) ==
  IF topByte(identifier) # 0 THEN -1
  ELSE withTopByte(identifier, ServiceIdentifierCode)

\* "bytes[3] = 0" assigns, to a copy, and is false.
canBeModuleIdentifier(identifier) == TRUE

canBeServiceIdentifier(identifier) ==
  topByte(identifier) = ServiceIdentifierCode

getMinimalModuleIdentifier == withTopByte(0, ModuleIdentifierCode)
=============================================================================
