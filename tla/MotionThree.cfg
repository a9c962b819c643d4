\* A generator with a prime modulus, seeds below and above it and the modulus
\* itself; three worms, that turn by right angles, on a board of two fields by
\* three.
CONSTANTS
  Name = {1, 2, 3}
  Modulus = 5
  Multiplier = 2
  Seed = {2, 5, 6}
  Speed = {90}
  width = 2
  height = 3
SPECIFICATION Spec
INVARIANTS TypeOK HeadingTrue GamesNamed
PROPERTY NewGameNewName
