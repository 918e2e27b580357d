SPECIFICATION FairSpec
CONSTANTS
  Tokens = {k1}
  NoToken = NoToken
  Confirmers = {bot, cli}
  Bot = bot
  Cli = cli
  TokenLife = 1
  MaxHours = 1
  Never = 4
  MaxWaiting = 2
  MaxDeaths = 1
INVARIANTS TypeOK AutoWithinGrant
PROPERTIES NoneSkipped QueueMoves
CHECK_DEADLOCK FALSE
