SPECIFICATION FairSpec
CONSTANTS
    bot = bot
    assistant = assistant
    m1 = m1
    Clients <- TwoClients
    Bots <- TheBot
    Bot = bot
    Assistant = assistant
    Messages <- TheMessages
    EndedElsewhere <- TheBot
    Files <- TheFiles
    Environments <- TheEnvironments
INVARIANTS
    SettingsComeFrom
    ReadyMeansLoggedIn
    HandledOnceAtMost
PROPERTIES
    NoMessageAfterStop
    BotLogsIn
    MessagesAreHandled
    ClientsStop
